---- MODULE Spec2Model ----
(***************************************************************************)
(* Course-home aggregation endpoints of the LMS:                           *)
(*   LeaderboardTabView  (leaderboard/views.py)  shared-rank leaderboard   *)
(*   TopGradesView       (leaderboard/views.py)  ordinal ranking by grade  *)
(*   TopProgressView     (leaderboard/views.py)  ordinal ranking by        *)
(*                                               completion percent        *)
(*   BadgeView           (badge/views.py)        chapter/section/unit      *)
(*                                               completion rollup         *)
(* The stored records the handlers read (enrollments, users, grades,       *)
(* completion summaries, the block tree, block completions) are the state; *)
(* every GET handler is one action that computes the response from them    *)
(* and leaves it in resp.  The handlers keep nothing between requests, so  *)
(* a behaviour is one request on the stored data.  There is one            *)
(* specification per group of endpoints: SpecLeaderboard, SpecTop and      *)
(* SpecBadge; each starts from the records its handlers read.  SpecCourse  *)
(* puts the four endpoints over the records of one course.                 *)
(*                                                                         *)
(* Course chat (learner_chat/views.py): ChatRoomViewSet lists, creates and *)
(* soft-deletes the messages of one room per course and chat type.  These  *)
(* handlers write and run side by side, so each database statement of a    *)
(* handler is one action and SpecChat interleaves the requests in flight.  *)
(*                                                                         *)
(* Numbers.  Python floats are modelled exactly:                           *)
(*   - an unrounded percentage is a fraction in lowest terms [num, den];   *)
(*   - a value rounded to k decimals is the integer value * 10^k;          *)
(*   - round() yields the nearest such integer; where the exact quotient   *)
(*     lies half way between two of them the float's representation error  *)
(*     decides, so both neighbours are possible outcomes (RoundNearest).   *)
(* Optional values (Python None) are sequences of length 0 or 1, and a     *)
(* nullable timestamp is 0 (NoTime) or a time in Times.                    *)
(***************************************************************************)
EXTENDS Integers, Sequences, FiniteSets, TLC

VARIABLES
    enrollment,          \* CourseEnrollment rows of the course, by user
    enrollment_created,  \* CourseEnrollment.created (nullable), by active user
    date_joined,         \* User.date_joined, by active user
    grades,              \* PersistentCourseGrade row, if any, by active user
    completion_summary,  \* get_course_blocks_completion_summary, by active user
    blocks_response,     \* what get_blocks answers for the course
    block_completions,   \* BlockCompletion rows of the course with completion 1.0
    resp,                \* the response of the last request
    chat_rooms,          \* ChatRoom rows, by id
    chat_messages,       \* ChatMessage rows, by id
    chat_clock,          \* timezone.now() of the next write to a chat table
    site_admin,          \* User.is_staff, by chat member
    chat_enrolled,       \* the courses a chat member can access, by member
    requests             \* the chat requests in flight, by request slot

\* the stored records: no GET handler writes them
stored ==
    <<enrollment, enrollment_created, date_joined, grades, completion_summary,
      blocks_response, block_completions>>

\* the chat tables and the chat requests
chat == <<chat_rooms, chat_messages, chat_clock, site_admin, chat_enrolled, requests>>

vars == <<stored, resp, chat>>

(***************************************************************************)
(* Bounds                                                                  *)
(***************************************************************************)
NumUsers == 3
NumStudents == 2
NumUnits == 1
MaxTime == 2
MaxGrade == 1
MaxBlocks == 5
MaxRecords == 2
NumLearners == 4
NumMembers == 2
NumCourses == 2
NumRequests == 2
MaxMessages == 2

Users == 1..NumUsers

\* the users who have an enrollment, active or not, in a course with grades or
\* progress
Students == 1..NumStudents

None == <<>>
Some(x) == <<x>>

\* a nullable timestamp that is not set, and the timestamps that are
NoTime == 0
Times == 1..MaxTime

(***************************************************************************)
(* Arithmetic helpers                                                      *)
(***************************************************************************)
RECURSIVE GCD(_, _)
GCD(a, b) == IF b = 0 THEN a ELSE GCD(b, a % b)

\* num / den as a fraction in lowest terms (den > 0, num >= 0)
Frac(num, den) ==
    LET g == GCD(num, den)
    IN  [num |-> num \div g, den |-> den \div g]

FracLess(a, b) == a.num * b.den < b.num * a.den

Abs(x) == IF x < 0 THEN -x ELSE x

\* round(num / den): the integers nearest to the quotient (num >= 0, den > 0)
RoundNearest(num, den) ==
    LET q == num \div den
    IN  {r \in {q, q + 1} : 2 * Abs(r * den - num) <= den}

RECURSIVE SumSeq(_)
SumSeq(s) == IF s = <<>> THEN 0 ELSE Head(s) + SumSeq(Tail(s))

\* s[:k] for k >= 0
Take(s, k) == SubSeq(s, 1, IF k < Len(s) THEN k ELSE Len(s))

\* the orders in which a queryset without order_by may return the rows of S
RECURSIVE Orderings(_)
Orderings(S) ==
    IF S = {} THEN {<<>>}
    ELSE UNION {{<<x>> \o t : t \in Orderings(S \ {x})} : x \in S}

(***************************************************************************)
(* Stored data                                                             *)
(***************************************************************************)
EnrollmentStates == {"none", "inactive", "active"}

ActiveUsers == {u \in DOMAIN enrollment : enrollment[u] = "active"}

\* usernames are unique; users are numbered in username order
Username(u) == u

\* what get_course_blocks_completion_summary returns: no completable block at
\* all, or the course's NumUnits blocks split into complete/incomplete/locked
Summaries ==
    {s \in [complete_count : 0..NumUnits, incomplete_count : 0..NumUnits,
            locked_count : 0..NumUnits] :
        s.complete_count + s.incomplete_count + s.locked_count \in {0, NumUnits}}

(***************************************************************************)
(* The enrollment check shared by the handlers                             *)
(***************************************************************************)
\* the check without is_active: any enrollment row admits the user
NotEnrolledAtAll(user, is_staff) == ~(enrollment[user] # "none" \/ is_staff)

\* not ((enrollment and enrollment.is_active) or is_staff)
NotEnrolled(user, is_staff) == ~(enrollment[user] = "active" \/ is_staff)

Rejected(endpoint, user, is_staff) ==
    [endpoint |-> endpoint, status |-> 401, user |-> user, is_staff |-> is_staff,
     body |-> None]

(***************************************************************************)
(* LeaderboardTabView.get                                                  *)
(***************************************************************************)
TopPerformersCount == 3

\* (complete_count / total_units * 100) if total_units > 0 else 0.0
CompletionPercent(s) ==
    LET total_units == s.complete_count + s.incomplete_count + s.locked_count
    IN  IF total_units > 0 THEN Frac(s.complete_count * 100, total_units)
        ELSE Frac(0, 1)

CompletionEntry(u, user) ==
    [user_id |-> u, username |-> Username(u),
     completion_percent |-> CompletionPercent(completion_summary[u]),
     is_current_user |-> (u = user)]

\* key=lambda x: (-x['completion_percent'], x['username'])
CompletionBefore(a, b) ==
    \/ FracLess(b.completion_percent, a.completion_percent)
    \/ /\ a.completion_percent = b.completion_percent
       /\ a.username < b.username

\* list.sort is stable: an entry is placed behind every entry it is not before,
\* so entries whose keys are equal keep the order in which they were fetched
InsertCompletion(sorted, x) ==
    SelectSeq(sorted, LAMBDA y : ~CompletionBefore(x, y))
        \o <<x>> \o SelectSeq(sorted, LAMBDA y : CompletionBefore(x, y))

\* the list left in the order the entries were fetched
FetchOrder(completion_data) == completion_data

\* completion_data.sort(key=...)
SortCompletion(completion_data) ==
    LET ins[k \in 0..Len(completion_data)] ==
            IF k = 0 THEN <<>> ELSE InsertCompletion(ins[k - 1], completion_data[k])
    IN  ins[Len(completion_data)]

\* dense ranking: the rank moves to the next number when the score drops
AppendDense(done, entry) ==
    LET idx == Len(done)
        rank == IF idx = 0 THEN 1
                ELSE IF FracLess(entry.completion_percent, done[idx].grade_percent)
                     THEN done[idx].rank + 1
                     ELSE done[idx].rank
    IN  Append(done, [rank |-> rank, user_id |-> entry.user_id,
                      username |-> entry.username,
                      grade_percent |-> entry.completion_percent,
                      is_current_user |-> entry.is_current_user])

\* one turn of the rank loop: entry is the idx-th (0-based) of the sorted list,
\* done the entries before it; rank moves to idx + 1 only when the score drops
AppendShared(done, entry) ==
    LET idx == Len(done)
        rank == IF idx = 0 THEN 1
                ELSE IF FracLess(entry.completion_percent, done[idx].grade_percent)
                     THEN idx + 1
                     ELSE done[idx].rank
    IN  Append(done, [rank |-> rank, user_id |-> entry.user_id,
                      username |-> entry.username,
                      grade_percent |-> entry.completion_percent,
                      is_current_user |-> entry.is_current_user])

LeaderboardEntries(sorted) ==
    LET loop[k \in 0..Len(sorted)] ==
            IF k = 0 THEN <<>> ELSE AppendShared(loop[k - 1], sorted[k])
    IN  loop[Len(sorted)]

\* (total_students - rank) / total_students * 100, in hundredths before rounding
PercentileNum(rank, total_students) == (total_students - rank) * 10000

\* the percentile cut to 2 decimals instead of rounded
PercentilesTruncated(rank, total_students) ==
    IF total_students > 0
    THEN {PercentileNum(rank, total_students) \div total_students}
    ELSE {0}

\* the possible values of round(percentile, 2), in hundredths
Percentiles(rank, total_students) ==
    IF total_students > 0
    THEN RoundNearest(PercentileNum(rank, total_students), total_students)
    ELSE {0}

\* the whole leaderboard taken as the top performers
TopPerformersAll(leaderboard_data) == leaderboard_data

\* leaderboard_data[:3] if len(leaderboard_data) >= 3 else leaderboard_data
TopPerformers(leaderboard_data) ==
    IF Len(leaderboard_data) >= TopPerformersCount
    THEN SubSeq(leaderboard_data, 1, TopPerformersCount)
    ELSE leaderboard_data

\* the last entry of the list that is the requesting user's, if any
CurrentUserEntry(ranked) ==
    LET mine == SelectSeq(ranked, LAMBDA e : e.is_current_user)
    IN  IF mine = <<>> THEN None ELSE Some(mine[Len(mine)])

LeaderboardBody(leaderboard_data, current_user_entry, percentile) ==
    LET total_students == Len(leaderboard_data)
    IN  [leaderboard |-> leaderboard_data,
         current_user_rank |->
            IF current_user_entry = None THEN None
            ELSE Some([rank |-> current_user_entry[1].rank,
                       total_students |-> total_students,
                       percentile |-> percentile]),
         total_students |-> total_students,
         top_performers |-> TopPerformers(leaderboard_data)]

LeaderboardRespond(user, is_staff, leaderboard_data, current_user_entry) ==
    \E percentile \in
          (IF current_user_entry = None THEN {0}
           ELSE Percentiles(current_user_entry[1].rank, Len(leaderboard_data))) :
        resp' = [endpoint |-> "leaderboard", status |-> 200, user |-> user,
                 is_staff |-> is_staff,
                 body |-> Some(LeaderboardBody(leaderboard_data, current_user_entry,
                                               percentile))]

LeaderboardRanked(user, is_staff, leaderboard_data) ==
    LeaderboardRespond(user, is_staff, leaderboard_data,
                       CurrentUserEntry(leaderboard_data))

LeaderboardTabGet(user, is_staff, all_users) ==
    /\ IF NotEnrolled(user, is_staff)
       THEN resp' = Rejected("leaderboard", user, is_staff)
       ELSE LeaderboardRanked(user, is_staff,
                LeaderboardEntries(
                    SortCompletion([i \in 1..Len(all_users) |->
                                       CompletionEntry(all_users[i], user)])))
    /\ UNCHANGED stored

(***************************************************************************)
(* TopGradesView.get and TopProgressView.get                               *)
(***************************************************************************)
\* limit = int(request.query_params.get('limit', 10))
DefaultLimit == 10

\* timezone.now(): later than every stored timestamp
Now == MaxTime + 1

\* the slice with its end taken one entry too far
SliceThrough(s, limit) ==
    IF limit >= 0 THEN Take(s, limit + 1)
    ELSE Take(s, IF Len(s) + limit + 1 > 0 THEN Len(s) + limit + 1 ELSE 0)

\* s[:limit]; a negative limit counts from the end of the list
SliceTo(s, limit) ==
    IF limit >= 0 THEN Take(s, limit)
    ELSE Take(s, IF Len(s) + limit > 0 THEN Len(s) + limit ELSE 0)

Range(s) == {s[i] : i \in 1..Len(s)}

\* max(s) and min(s) of a non-empty list of numbers
MaxOf(s) == CHOOSE m \in Range(s) : \A x \in Range(s) : x <= m

MinOf(s) == CHOOSE m \in Range(s) : \A x \in Range(s) : m <= x

\* round(grade.percent_grade * 10, 1) if grade.percent_grade else 0.0, in tenths
\* of a point; percent_grade is the fraction percent_grade / MaxGrade (for
\* MaxGrade < 8 no grade lies half way between two tenths)
GradePercent(grade) ==
    IF grade.percent_grade # 0
    THEN CHOOSE r \in RoundNearest(100 * grade.percent_grade, MaxGrade) : TRUE
    ELSE 0

\* grade.passed_timestamp if grade.passed_timestamp else grade.modified
GradeTime(grade) ==
    IF grade.passed_timestamp # NoTime THEN grade.passed_timestamp ELSE grade.modified

\* the enrollment passed over: grade_time, else the user's date_joined
GradeTieBreakerTimeJoined(u, grade_time) ==
    IF grade_time # NoTime THEN grade_time ELSE date_joined[u]

\* grade_time, else the enrollment's created, else the user's date_joined
GradeTieBreakerTime(u, grade_time) ==
    IF grade_time # NoTime THEN grade_time
    ELSE IF enrollment_created[u] # NoTime THEN enrollment_created[u]
    ELSE date_joined[u]

\* the row of grades_data of a user with a grade record
GradedEntry(u, user, grade) ==
    [user_id |-> u,
     grade_percentage |-> GradePercent(grade),
     is_passed |-> (grade.passed_timestamp # NoTime),
     grade_time |-> GradeTime(grade),
     tie_breaker_time |-> GradeTieBreakerTime(u, GradeTime(grade)),
     is_current_user |-> (u = user)]

\* the row of a user without one
UngradedEntry(u, user) ==
    [user_id |-> u,
     grade_percentage |-> 0,
     is_passed |-> FALSE,
     grade_time |-> NoTime,
     tie_breaker_time |-> GradeTieBreakerTime(u, NoTime),
     is_current_user |-> (u = user)]

GradeEntry(u, user) ==
    IF grades[u] # None THEN GradedEntry(u, user, grades[u][1])
    ELSE UngradedEntry(u, user)

\* x['tie_breaker_time'] if x['tie_breaker_time'] else timezone.now()
SortTime(x) == IF x.tie_breaker_time # NoTime THEN x.tie_breaker_time ELSE Now

\* the later time first among equal grades
GradeBeforeLatest(a, b) ==
    \/ a.grade_percentage > b.grade_percentage
    \/ /\ a.grade_percentage = b.grade_percentage
       /\ SortTime(a) > SortTime(b)

\* key=lambda x: (-x['grade_percentage'], tie_breaker_time or now)
GradeBefore(a, b) ==
    \/ a.grade_percentage > b.grade_percentage
    \/ /\ a.grade_percentage = b.grade_percentage
       /\ SortTime(a) < SortTime(b)

InsertGrade(sorted, x) ==
    SelectSeq(sorted, LAMBDA y : ~GradeBefore(x, y))
        \o <<x>> \o SelectSeq(sorted, LAMBDA y : GradeBefore(x, y))

\* grades_data.sort(key=...)
SortGrades(grades_data) ==
    LET ins[k \in 0..Len(grades_data)] ==
            IF k = 0 THEN <<>> ELSE InsertGrade(ins[k - 1], grades_data[k])
    IN  ins[Len(grades_data)]

\* entry_with_rank = {'rank': idx + 1, **entry}
GradesWithRank(grades_data) ==
    [i \in 1..Len(grades_data) |->
        [rank |-> i,
         user_id |-> grades_data[i].user_id,
         grade_percentage |-> grades_data[i].grade_percentage,
         is_passed |-> grades_data[i].is_passed,
         grade_time |-> grades_data[i].grade_time,
         tie_breaker_time |-> grades_data[i].tie_breaker_time,
         is_current_user |-> grades_data[i].is_current_user]]

\* the possible values of round(sum(scores) / len(scores), k), 0 for no score
Averages(scores) ==
    IF scores # <<>> THEN RoundNearest(SumSeq(scores), Len(scores)) ELSE {0}

\* the response data; limit and all_students_with_rank are the handler's locals,
\* kept beside the response fields for the properties to refer to
TopGradesBody(limit, total_students, all_students_with_rank, all_grades, top_students, current_user_entry, avg_grade) ==
    [limit |-> limit,
     all_students_with_rank |-> all_students_with_rank,
     summary |-> [total_students |-> total_students,
                  avg_grade |-> avg_grade,
                  max_grade |-> IF all_grades # <<>> THEN MaxOf(all_grades) ELSE 0,
                  min_grade |-> IF all_grades # <<>> THEN MinOf(all_grades) ELSE 0,
                  top_count |-> Len(top_students)],
     top_students |-> top_students,
     current_user_entry |->
        IF \E i \in 1..Len(top_students) : top_students[i].is_current_user
        THEN None ELSE current_user_entry]

TopGradesRespond(user, is_staff, limit, all_students_with_rank, all_grades) ==
    \E avg_grade \in Averages(all_grades) :
        resp' = [endpoint |-> "top_grades", status |-> 200, user |-> user,
                 is_staff |-> is_staff,
                 body |-> Some(TopGradesBody(limit, Cardinality(ActiveUsers),
                                             all_students_with_rank, all_grades,
                                             SliceTo(all_students_with_rank, limit),
                                             CurrentUserEntry(all_students_with_rank),
                                             avg_grade))]

\* the statistics taken over the entries of top_students only
TopGradesRankedOverTop(user, is_staff, limit, all_students_with_rank) ==
    TopGradesRespond(user, is_staff, limit, all_students_with_rank,
                     [i \in 1..Len(SliceTo(all_students_with_rank, limit)) |->
                         all_students_with_rank[i].grade_percentage])

TopGradesRanked(user, is_staff, limit, all_students_with_rank) ==
    TopGradesRespond(user, is_staff, limit, all_students_with_rank,
                     [i \in 1..Len(all_students_with_rank) |->
                         all_students_with_rank[i].grade_percentage])

\* the ranking over the students that have a grade record only
TopGradesGetGraded(user, is_staff, limit, all_users) ==
    /\ IF NotEnrolled(user, is_staff)
       THEN resp' = Rejected("top_grades", user, is_staff)
       ELSE TopGradesRanked(user, is_staff, limit,
                GradesWithRank(
                    SortGrades([i \in 1..Len(SelectSeq(all_users,
                                                       LAMBDA u : grades[u] # None)) |->
                                   GradeEntry(SelectSeq(all_users,
                                                        LAMBDA u : grades[u] # None)[i],
                                              user)])))
    /\ UNCHANGED stored

TopGradesGet(user, is_staff, limit, all_users) ==
    /\ IF NotEnrolled(user, is_staff)
       THEN resp' = Rejected("top_grades", user, is_staff)
       ELSE TopGradesRanked(user, is_staff, limit,
                GradesWithRank(
                    SortGrades([i \in 1..Len(all_users) |->
                                   GradeEntry(all_users[i], user)])))
    /\ UNCHANGED stored

\* round((complete_count / total_units * 100), 2) if total_units > 0 else 0.0, in
\* hundredths of a percent (for total_units < 32 no quotient lies half way)
ProgressPercent(s) ==
    LET total_units == s.complete_count + s.incomplete_count + s.locked_count
    IN  IF total_units > 0
        THEN CHOOSE r \in RoundNearest(s.complete_count * 10000, total_units) : TRUE
        ELSE 0

\* the enrollment's created, else the user's date_joined
ProgressTieBreakerTime(u) ==
    IF enrollment_created[u] # NoTime THEN enrollment_created[u] ELSE date_joined[u]

ProgressEntry(u, user) ==
    [user_id |-> u,
     progress_percent |-> ProgressPercent(completion_summary[u]),
     tie_breaker_time |-> ProgressTieBreakerTime(u),
     is_current_user |-> (u = user)]

\* key=lambda x: (-x['progress_percent'], tie_breaker_time or now)
ProgressBefore(a, b) ==
    \/ a.progress_percent > b.progress_percent
    \/ /\ a.progress_percent = b.progress_percent
       /\ SortTime(a) < SortTime(b)

InsertProgress(sorted, x) ==
    SelectSeq(sorted, LAMBDA y : ~ProgressBefore(x, y))
        \o <<x>> \o SelectSeq(sorted, LAMBDA y : ProgressBefore(x, y))

\* progress_data.sort(key=...)
SortProgress(progress_data) ==
    LET ins[k \in 0..Len(progress_data)] ==
            IF k = 0 THEN <<>> ELSE InsertProgress(ins[k - 1], progress_data[k])
    IN  ins[Len(progress_data)]

\* entry_with_rank = {'rank': idx + 1, **entry}
ProgressWithRank(progress_data) ==
    [i \in 1..Len(progress_data) |->
        [rank |-> i,
         user_id |-> progress_data[i].user_id,
         progress_percent |-> progress_data[i].progress_percent,
         tie_breaker_time |-> progress_data[i].tie_breaker_time,
         is_current_user |-> progress_data[i].is_current_user]]

TopProgressBody(limit, all_students_with_rank, top_students, current_user_entry, avg_progress) ==
    [limit |-> limit,
     all_students_with_rank |-> all_students_with_rank,
     summary |-> [total_students_with_progress |-> Len(all_students_with_rank),
                  avg_progress |-> avg_progress,
                  top_count |-> Len(top_students)],
     top_students |-> top_students,
     current_user_entry |->
        IF \E i \in 1..Len(top_students) : top_students[i].is_current_user
        THEN None ELSE current_user_entry]

TopProgressRespond(user, is_staff, limit, all_students_with_rank, all_progress) ==
    \E avg_progress \in Averages(all_progress) :
        resp' = [endpoint |-> "top_progress", status |-> 200, user |-> user,
                 is_staff |-> is_staff,
                 body |-> Some(TopProgressBody(limit, all_students_with_rank,
                                               SliceTo(all_students_with_rank, limit),
                                               CurrentUserEntry(all_students_with_rank),
                                               avg_progress))]

TopProgressRanked(user, is_staff, limit, all_students_with_rank) ==
    TopProgressRespond(user, is_staff, limit, all_students_with_rank,
                       [i \in 1..Len(all_students_with_rank) |->
                           all_students_with_rank[i].progress_percent])

TopProgressGet(user, is_staff, limit, all_users) ==
    /\ IF NotEnrolled(user, is_staff)
       THEN resp' = Rejected("top_progress", user, is_staff)
       ELSE TopProgressRanked(user, is_staff, limit,
                ProgressWithRank(
                    SortProgress([i \in 1..Len(all_users) |->
                                     ProgressEntry(all_users[i], user)])))
    /\ UNCHANGED stored

(***************************************************************************)
(* BadgeView                                                               *)
(***************************************************************************)
\* a block key string: the block it names and the form it is written in
Key(name, form) == <<name, form>>

\* the canonical string of a key, two other strings that parse to the same key,
\* and a string that does not parse
KeyForms == {"canonical", "legacy", "alias", "invalid"}

\* the empty string, a root id that is not None and still falsy
EmptyString == Key(0, "empty")

\* str(UsageKey.from_string(key)): the canonical string of a key that parses,
\* None when from_string raises
Normalize(key) ==
    IF key[2] = "canonical" THEN Some(key)
    ELSE IF key[2] \in {"legacy", "alias"} THEN Some(Key(key[1], "canonical"))
    ELSE None

\* completed_at.isoformat(): a string; strings of one format and zone compare as
\* their instants do
IsoFormat(t) == [isoformat |-> t]

IsoAfter(a, b) == a.isoformat > b.isoformat

\* {'blocks': {}, 'root': None}
NoStructure == [blocks |-> <<>>, root |-> None]

\* _get_course_structure: what get_blocks answered, or NoStructure when the call
\* raised, answered something that is no dict, named no root, or named a root
\* that is not among the blocks
GetCourseStructure(response) ==
    IF response.outcome # "dict" THEN NoStructure
    ELSE IF response.root = None \/ response.root = Some(EmptyString)
         THEN NoStructure
    ELSE IF response.root[1] \notin DOMAIN response.blocks
         THEN NoStructure
    ELSE [blocks |-> response.blocks, root |-> response.root]

\* the record stored under the string of its key only
StoreRawOnly(completion_dict, row) ==
    (row.block_key :> row.modified) @@ completion_dict

\* one turn of the loop of _get_user_completions: the record is stored under
\* the string of its key and, when that string parses, under its canonical form
StoreCompletion(completion_dict, row) ==
    IF Normalize(row.block_key) = None
    THEN (row.block_key :> row.modified) @@ completion_dict
    ELSE (Normalize(row.block_key)[1] :> row.modified)
            @@ (row.block_key :> row.modified) @@ completion_dict

\* _get_user_completions over the rows in the order the query returned them
GetUserCompletions(completions) ==
    LET loop[k \in 0..Len(completions)] ==
            IF k = 0 THEN <<>> ELSE StoreCompletion(loop[k - 1], completions[k])
    IN  loop[Len(completions)]

\* the unit id reparsed before any match: an id that does not parse finds nothing
LookupParsedOnly(unit_id, completions) ==
    IF Normalize(unit_id) = None THEN None
    ELSE IF unit_id \in DOMAIN completions THEN Some(completions[unit_id])
    ELSE IF Normalize(unit_id)[1] \in DOMAIN completions
         THEN Some(completions[Normalize(unit_id)[1]])
    ELSE None

\* the timestamp stored under unit_id, else under its canonical form when
\* unit_id parses, else nothing
LookupCompletion(unit_id, completions) ==
    IF unit_id \in DOMAIN completions THEN Some(completions[unit_id])
    ELSE IF Normalize(unit_id) = None THEN None
    ELSE IF Normalize(unit_id)[1] \in DOMAIN completions
         THEN Some(completions[Normalize(unit_id)[1]])
    ELSE None

UnitData(unit_id, is_completed, completed_at) ==
    [unit_id |-> unit_id,
     is_completed |-> is_completed,
     completed_at |-> IF completed_at = None THEN None
                      ELSE Some(IsoFormat(completed_at[1]))]

\* the inline flag left out of account
BuildUnitDataLookupOnly(unit_id, unit_block, found) ==
    UnitData(unit_id, found # None, found)

\* _build_unit_data: the inline flag counts; without it the lookup decides; with
\* it the lookup still provides the time
BuildUnitData(unit_id, unit_block, found) ==
    IF ~unit_block.complete
    THEN UnitData(unit_id, found # None, found)
    ELSE UnitData(unit_id, TRUE, found)

\* a section is completed as soon as none of its units is left incomplete
SectionDataAllOf(section_id, units, completed_units_count, section_completed_at) ==
    [section_id |-> section_id,
     is_completed |-> (completed_units_count = Len(units)),
     completed_at |-> section_completed_at,
     total_units |-> Len(units),
     completed_units |-> completed_units_count,
     units |-> units]

\* the dictionary _build_section_data returns
SectionData(section_id, units, completed_units_count, section_completed_at) ==
    [section_id |-> section_id,
     is_completed |-> (Len(units) > 0 /\ completed_units_count = Len(units)),
     completed_at |-> section_completed_at,
     total_units |-> Len(units),
     completed_units |-> completed_units_count,
     units |-> units]

\* a unit that is counted: the latest completed_at among the completed units is
\* kept
CountUnit(acc, unit_data) ==
    [units |-> Append(acc.units, unit_data),
     completed_units_count |->
        acc.completed_units_count + (IF unit_data.is_completed THEN 1 ELSE 0),
     section_completed_at |->
        IF /\ unit_data.is_completed
           /\ unit_data.completed_at # None
           /\ \/ acc.section_completed_at = None
              \/ IsoAfter(unit_data.completed_at[1], acc.section_completed_at[1])
        THEN unit_data.completed_at
        ELSE acc.section_completed_at]

\* the loop without the type test: every child found in the block map is a unit
SectionStepAnyType(acc, unit_id, blocks, completions) ==
    IF unit_id \notin DOMAIN blocks THEN acc
    ELSE CountUnit(acc, BuildUnitData(unit_id, blocks[unit_id],
                                      LookupCompletion(unit_id, completions)))

\* one turn of the loop of _build_section_data
SectionStep(acc, unit_id, blocks, completions) ==
    IF unit_id \notin DOMAIN blocks THEN acc
    ELSE IF blocks[unit_id].type # "vertical" THEN acc
    ELSE CountUnit(acc, BuildUnitData(unit_id, blocks[unit_id],
                                      LookupCompletion(unit_id, completions)))

SectionLoop(unit_ids, blocks, completions) ==
    LET loop[k \in 0..Len(unit_ids)] ==
            IF k = 0
            THEN [units |-> <<>>, completed_units_count |-> 0,
                  section_completed_at |-> None]
            ELSE SectionStep(loop[k - 1], unit_ids[k], blocks, completions)
    IN  loop[Len(unit_ids)]

SectionResult(section_id, acc) ==
    SectionData(section_id, acc.units, acc.completed_units_count,
                acc.section_completed_at)

\* _build_section_data
BuildSectionData(section_id, section_block, blocks, completions) ==
    SectionResult(section_id, SectionLoop(section_block.children, blocks, completions))

\* a chapter that is completed as soon as one of its sections is
ChapterDataAnyOf(chapter_id, sections, completed_sections_count, chapter_completed_at) ==
    [chapter_id |-> chapter_id,
     is_completed |-> (completed_sections_count > 0),
     completed_at |-> chapter_completed_at,
     total_sections |-> Len(sections),
     completed_sections |-> completed_sections_count,
     sections |-> sections]

\* the dictionary _build_chapter_data returns
ChapterData(chapter_id, sections, completed_sections_count, chapter_completed_at) ==
    [chapter_id |-> chapter_id,
     is_completed |-> (Len(sections) > 0 /\ completed_sections_count = Len(sections)),
     completed_at |-> chapter_completed_at,
     total_sections |-> Len(sections),
     completed_sections |-> completed_sections_count,
     sections |-> sections]

\* a section that is counted
CountSection(acc, section_data) ==
    [sections |-> Append(acc.sections, section_data),
     completed_sections_count |->
        acc.completed_sections_count + (IF section_data.is_completed THEN 1 ELSE 0),
     chapter_completed_at |->
        IF /\ section_data.is_completed
           /\ section_data.completed_at # None
           /\ \/ acc.chapter_completed_at = None
              \/ IsoAfter(section_data.completed_at[1], acc.chapter_completed_at[1])
        THEN section_data.completed_at
        ELSE acc.chapter_completed_at]

\* one turn of the loop of _build_chapter_data
ChapterStep(acc, section_id, blocks, completions) ==
    IF section_id \notin DOMAIN blocks THEN acc
    ELSE IF blocks[section_id].type # "sequential" THEN acc
    ELSE CountSection(acc, BuildSectionData(section_id, blocks[section_id],
                                            blocks, completions))

ChapterLoop(section_ids, blocks, completions) ==
    LET loop[k \in 0..Len(section_ids)] ==
            IF k = 0
            THEN [sections |-> <<>>, completed_sections_count |-> 0,
                  chapter_completed_at |-> None]
            ELSE ChapterStep(loop[k - 1], section_ids[k], blocks, completions)
    IN  loop[Len(section_ids)]

ChapterResult(chapter_id, acc) ==
    ChapterData(chapter_id, acc.sections, acc.completed_sections_count,
                acc.chapter_completed_at)

\* _build_chapter_data
BuildChapterData(chapter_id, chapter_block, blocks, completions) ==
    ChapterResult(chapter_id, ChapterLoop(chapter_block.children, blocks, completions))

\* the percentage cut off after the first decimal instead of rounded
CompletionPercentageTruncated(completed_units, total_units) ==
    IF total_units > 0
    THEN (completed_units * 1000) \div total_units
    ELSE 0

\* round((completed_units / total_units * 100) if total_units > 0 else 0.0, 1),
\* in tenths of a percent (for total_units < 16 no quotient lies half way)
CompletionPercentage(completed_units, total_units) ==
    IF total_units > 0
    THEN CHOOSE r \in RoundNearest(completed_units * 1000, total_units) : TRUE
    ELSE 0

\* an empty rollup that reports full completion
FullBadgeData ==
    [summary |-> [total_chapters |-> 0, completed_chapters |-> 0,
                  total_sections |-> 0, completed_sections |-> 0,
                  total_units |-> 0, completed_units |-> 0,
                  completion_percentage |-> 1000],
     chapters |-> <<>>]

\* the rollup of a course without a root
EmptyBadgeData ==
    [summary |-> [total_chapters |-> 0, completed_chapters |-> 0,
                  total_sections |-> 0, completed_sections |-> 0,
                  total_units |-> 0, completed_units |-> 0,
                  completion_percentage |-> 0],
     chapters |-> <<>>]

\* a chapter that is counted, with the units of its sections
CountChapter(acc, chapter_data) ==
    [chapters |-> Append(acc.chapters, chapter_data),
     total_chapters |-> acc.total_chapters + 1,
     completed_chapters |->
        acc.completed_chapters + (IF chapter_data.is_completed THEN 1 ELSE 0),
     total_sections |-> acc.total_sections + chapter_data.total_sections,
     completed_sections |-> acc.completed_sections + chapter_data.completed_sections,
     total_units |->
        acc.total_units
            + SumSeq([i \in 1..Len(chapter_data.sections) |->
                         chapter_data.sections[i].total_units]),
     completed_units |->
        acc.completed_units
            + SumSeq([i \in 1..Len(chapter_data.sections) |->
                         chapter_data.sections[i].completed_units])]

\* one turn of the loop of _build_badge_data
BadgeStep(acc, chapter_id, blocks, completions) ==
    IF chapter_id \notin DOMAIN blocks THEN acc
    ELSE IF blocks[chapter_id].type # "chapter" THEN acc
    ELSE CountChapter(acc, BuildChapterData(chapter_id, blocks[chapter_id],
                                            blocks, completions))

BadgeLoop(chapter_ids, blocks, completions) ==
    LET loop[k \in 0..Len(chapter_ids)] ==
            IF k = 0
            THEN [chapters |-> <<>>, total_chapters |-> 0, completed_chapters |-> 0,
                  total_sections |-> 0, completed_sections |-> 0,
                  total_units |-> 0, completed_units |-> 0]
            ELSE BadgeStep(loop[k - 1], chapter_ids[k], blocks, completions)
    IN  loop[Len(chapter_ids)]

BadgeResult(acc) ==
    [summary |-> [total_chapters |-> acc.total_chapters,
                  completed_chapters |-> acc.completed_chapters,
                  total_sections |-> acc.total_sections,
                  completed_sections |-> acc.completed_sections,
                  total_units |-> acc.total_units,
                  completed_units |-> acc.completed_units,
                  completion_percentage |->
                     CompletionPercentage(acc.completed_units, acc.total_units)],
     chapters |-> acc.chapters]

\* _build_badge_data
BuildBadgeData(blocks_data, completions) ==
    IF blocks_data.root = None \/ blocks_data.root = Some(EmptyString)
    THEN EmptyBadgeData
    ELSE IF blocks_data.root[1] \notin DOMAIN blocks_data.blocks
         THEN EmptyBadgeData
    ELSE BadgeResult(BadgeLoop(blocks_data.blocks[blocks_data.root[1]].children,
                               blocks_data.blocks, completions))

\* the BlockCompletion rows of a user: completion = 1.0 in this course
UserCompletions(user) == {row \in block_completions : row.user = user}

\* the handler without the try/except of _get_course_structure: a get_blocks
\* that raises is answered with a server error
BadgeGetUnguarded(user, is_staff, completions) ==
    /\ IF NotEnrolled(user, is_staff)
       THEN resp' = Rejected("badge", user, is_staff)
       ELSE IF blocks_response.outcome = "raises"
            THEN resp' = [endpoint |-> "badge", status |-> 500, user |-> user,
                          is_staff |-> is_staff, body |-> None]
       ELSE resp' = [endpoint |-> "badge", status |-> 200, user |-> user,
                     is_staff |-> is_staff,
                     body |-> Some(BuildBadgeData(GetCourseStructure(blocks_response),
                                                  GetUserCompletions(completions)))]
    /\ UNCHANGED stored

\* BadgeView.get
BadgeGet(user, is_staff, completions) ==
    /\ IF NotEnrolled(user, is_staff)
       THEN resp' = Rejected("badge", user, is_staff)
       ELSE resp' = [endpoint |-> "badge", status |-> 200, user |-> user,
                     is_staff |-> is_staff,
                     body |-> Some(BuildBadgeData(GetCourseStructure(blocks_response),
                                                  GetUserCompletions(completions)))]
    /\ UNCHANGED stored

(***************************************************************************)
(* ChatRoomViewSet (learner_chat/views.py)                                 *)
(*                                                                         *)
(* The chat handlers write, and requests run side by side: every database  *)
(* statement of a handler is one step, and the steps of the requests in    *)
(* flight interleave.  A request keeps its parameters and its locals in    *)
(* requests[p].  Mentions are left out: they are set on the new message    *)
(* and read by no check.                                                   *)
(***************************************************************************)
Members == 1..NumMembers

Courses == 1..NumCourses

\* the chat types the requests are drawn from; the URL pattern also admits
\* technical, which no handler tells apart
RequestTypes == {"general", "qa"}

Procs == 1..NumRequests

\* the message ids a delete request can name: the stored ones and one more
MessageIds == 1..(MaxMessages + 1)

\* ChatMessage.objects.filter(...)[:100]
MessageLimit == 100

NoChatResponse == [status |-> 0, body |-> None]

\* a request slot that has received nothing
Idle ==
    [pc |-> "idle", op |-> "none", user |-> 0, course_id |-> 0,
     chat_type |-> "none", message_id |-> 0, has_text |-> FALSE, room |-> 0,
     message |-> None, response |-> NoChatResponse]

\* no chat data and no chat request: the state of the chat tables for the
\* course-home endpoints, which never read them
NoChat ==
    /\ chat_rooms = <<>>
    /\ chat_messages = <<>>
    /\ chat_clock = 1
    /\ site_admin = <<>>
    /\ chat_enrolled = <<>>
    /\ requests = <<>>

\* check_course_access: an active enrollment or staff access to the course;
\* has_access grants staff access to every user with is_staff
CheckCourseAccess(user, course_id) ==
    course_id \in chat_enrolled[user] \/ site_admin[user]

\* the ids of the ChatRoom rows of a course and chat type
RoomsOf(course_id, chat_type) ==
    {i \in 1..Len(chat_rooms) :
        chat_rooms[i] = [course_id |-> course_id, chat_type |-> chat_type]}

\* the answer of a handler: the request is finished
Respond(request, status, body) ==
    [request EXCEPT !.pc = "done", !.response = [status |-> status, body |-> body]]

\* the start of a handler: the request is answered 403 when check_course_access
\* fails, else it goes on to its first statement
Receive(p, op, user, course_id, chat_type, message_id, has_text, first) ==
    /\ requests[p].pc = "idle"
    /\ LET request == [Idle EXCEPT !.op = op, !.user = user,
                                   !.course_id = course_id,
                                   !.chat_type = chat_type,
                                   !.message_id = message_id,
                                   !.has_text = has_text]
       IN  requests' =
              [requests EXCEPT ![p] =
                  IF ~CheckCourseAccess(user, course_id)
                  THEN Respond(request, 403, None)
                  ELSE [request EXCEPT !.pc = first]]
    /\ UNCHANGED <<chat_rooms, chat_messages, chat_clock, site_admin, chat_enrolled>>

\* list_messages up to get_room
ListMessages(p, user, course_id, chat_type) ==
    Receive(p, "list", user, course_id, chat_type, 0, FALSE, "get_room")

\* create_message up to get_room
CreateMessage(p, user, course_id, chat_type, has_text) ==
    Receive(p, "create", user, course_id, chat_type, 0, has_text, "get_room")

\* delete_message up to the lookup of the message
DeleteMessage(p, user, course_id, chat_type, message_id) ==
    Receive(p, "delete", user, course_id, chat_type, message_id, FALSE, "find_message")

\* the request once get_room returned room: create_message answers 400 for an
\* empty text, after the room was got or created
WithRoom(request, room) ==
    IF request.op = "create" /\ ~request.has_text
    THEN Respond([request EXCEPT !.room = room], 400, None)
    ELSE [request EXCEPT !.room = room,
                         !.pc = IF request.op = "create" THEN "insert" ELSE "query"]

\* get_or_create, the lookup: the room of the pair if there is one
GetRoom(p) ==
    /\ requests[p].pc = "get_room"
    /\ LET found == RoomsOf(requests[p].course_id, requests[p].chat_type)
       IN  requests' =
              [requests EXCEPT ![p] =
                  IF found = {} THEN [requests[p] EXCEPT !.pc = "create_room"]
                  ELSE WithRoom(requests[p], CHOOSE room \in found : TRUE)]
    /\ UNCHANGED <<chat_rooms, chat_messages, chat_clock, site_admin, chat_enrolled>>

\* the insert of get_or_create without the unique constraint: a row is added
\* whatever the table holds
CreateRoomUnconstrained(p) ==
    /\ requests[p].pc = "create_room"
    /\ chat_rooms' = Append(chat_rooms, [course_id |-> requests[p].course_id,
                                         chat_type |-> requests[p].chat_type])
    /\ requests' = [requests EXCEPT ![p] = WithRoom(requests[p], Len(chat_rooms) + 1)]
    /\ UNCHANGED <<chat_messages, chat_clock, site_admin, chat_enrolled>>

\* get_or_create, the insert: unique_together makes it fail when another request
\* created the room of the pair meanwhile, and the room is then looked up again;
\* where the transaction of the request cannot see the other request's row the
\* second lookup misses, the IntegrityError is raised again and the answer is 500
CreateRoom(p) ==
    /\ requests[p].pc = "create_room"
    /\ LET found == RoomsOf(requests[p].course_id, requests[p].chat_type)
       IN  IF found = {}
           THEN /\ chat_rooms' =
                      Append(chat_rooms, [course_id |-> requests[p].course_id,
                                          chat_type |-> requests[p].chat_type])
                /\ requests' = [requests EXCEPT ![p] =
                                   WithRoom(requests[p], Len(chat_rooms) + 1)]
           ELSE /\ chat_rooms' = chat_rooms
                /\ \E visible \in BOOLEAN :
                      requests' =
                         [requests EXCEPT ![p] =
                             IF visible
                             THEN WithRoom(requests[p], CHOOSE room \in found : TRUE)
                             ELSE Respond(requests[p], 500, None)]
    /\ UNCHANGED <<chat_messages, chat_clock, site_admin, chat_enrolled>>

\* the ids of the messages filter(room=room) selects, deleted ones included
InRoom(room) ==
    {i \in 1..Len(chat_messages) : chat_messages[i].room = room}

\* the ids of the messages filter(room=room, is_deleted=False) selects
Listable(room) ==
    {i \in 1..Len(chat_messages) :
        chat_messages[i].room = room /\ ~chat_messages[i].is_deleted}

\* ordering = ['-created_at']: the orders the database can return the messages
\* ids in, those created at latest first and then the earlier ones; messages
\* created at the same instant come in any order
RECURSIVE NewestFirst(_, _)
NewestFirst(ids, latest) ==
    IF latest = NoTime THEN {<<>>}
    ELSE {first \o rest :
             first \in Orderings({i \in ids : chat_messages[i].created_at = latest}),
             rest \in NewestFirst(ids, latest - 1)}

\* get_can_delete: a site admin or the author of the message
CanDelete(user, message) == site_admin[user] \/ message.user = user

\* ChatMessageSerializer
SerializeMessage(id, user) ==
    [id |-> id, user |-> chat_messages[id].user,
     is_deleted |-> chat_messages[id].is_deleted,
     created_at |-> chat_messages[id].created_at,
     can_delete |-> CanDelete(user, chat_messages[id])]

\* a query without a limit: every message selected
WholeListing(listing) == listing

\* [:100]: the first MessageLimit messages of the ordered query
FirstPage(listing) == Take(listing, MessageLimit)

\* the query of list_messages and its answer
QueryMessages(p) ==
    /\ requests[p].pc = "query"
    /\ \E listing \in NewestFirst(Listable(requests[p].room), chat_clock) :
          requests' =
             [requests EXCEPT ![p] =
                 Respond(requests[p], 200,
                         Some([room_id |-> requests[p].room,
                               course_id |-> requests[p].course_id,
                               chat_type |-> requests[p].chat_type,
                               messages |->
                                  [k \in 1..Len(FirstPage(listing)) |->
                                      SerializeMessage(listing[k],
                                                       requests[p].user)]]))]
    /\ UNCHANGED <<chat_rooms, chat_messages, chat_clock, site_admin, chat_enrolled>>

\* a ChatMessage row as ChatMessage.objects.create writes it
NewMessage(room, user, now) ==
    [room |-> room, user |-> user, is_deleted |-> FALSE, deleted_by |-> 0,
     deleted_at |-> NoTime, created_at |-> now]

\* the insert of create_message and its answer
InsertMessage(p) ==
    /\ requests[p].pc = "insert"
    /\ chat_messages' = Append(chat_messages,
                               NewMessage(requests[p].room, requests[p].user,
                                          chat_clock))
    /\ chat_clock' = chat_clock + 1
    /\ requests' =
          [requests EXCEPT ![p] =
              Respond(requests[p], 201,
                      Some([id |-> Len(chat_messages) + 1, user |-> requests[p].user,
                            is_deleted |-> FALSE, created_at |-> chat_clock,
                            can_delete |-> TRUE]))]
    /\ UNCHANGED <<chat_rooms, site_admin, chat_enrolled>>

\* ChatMessage.objects.get(id=message_id, is_deleted=False) and the permission
\* check of delete_message: 404 without such a row, 403 for a requester who is
\* neither a site admin nor the author; else the row is kept for the save
FindMessage(p) ==
    /\ requests[p].pc = "find_message"
    /\ LET id == requests[p].message_id
       IN  requests' =
              [requests EXCEPT ![p] =
                  IF id \notin 1..Len(chat_messages) \/ chat_messages[id].is_deleted
                  THEN Respond(requests[p], 404, None)
                  ELSE IF ~CanDelete(requests[p].user, chat_messages[id])
                       THEN Respond(requests[p], 403, None)
                  ELSE [requests[p] EXCEPT !.pc = "save",
                                           !.message = Some(chat_messages[id])]]
    /\ UNCHANGED <<chat_rooms, chat_messages, chat_clock, site_admin, chat_enrolled>>

\* message.save() of delete_message and its answer: every column of the row is
\* written from the object read by FindMessage
SaveMessage(p) ==
    /\ requests[p].pc = "save"
    /\ chat_messages' =
          [chat_messages EXCEPT ![requests[p].message_id] =
              [requests[p].message[1] EXCEPT !.is_deleted = TRUE,
                                             !.deleted_by = requests[p].user,
                                             !.deleted_at = chat_clock]]
    /\ chat_clock' = chat_clock + 1
    /\ requests' = [requests EXCEPT ![p] = Respond(requests[p], 200, None)]
    /\ UNCHANGED <<chat_rooms, site_admin, chat_enrolled>>

(***************************************************************************)
(* Specification of the completion leaderboard                             *)
(***************************************************************************)
\* a course without blocks
NoBlocks == [outcome |-> "dict", blocks |-> <<>>, root |-> None]

NoResponse ==
    [endpoint |-> "none", status |-> 0, user |-> 0, is_staff |-> FALSE,
     body |-> None]

\* the handler reads enrollments and completion summaries only
InitLeaderboard ==
    /\ enrollment \in [Users -> EnrollmentStates]
    /\ completion_summary \in [ActiveUsers -> Summaries]
    /\ enrollment_created = <<>>
    /\ date_joined = <<>>
    /\ grades = <<>>
    /\ blocks_response = NoBlocks
    /\ block_completions = {}
    /\ resp = NoResponse
    /\ NoChat

\* every request is handled on its own: a behaviour is one request on the
\* stored data
NextLeaderboard ==
    /\ resp = NoResponse
    /\ \E user \in Users, is_staff \in BOOLEAN, all_users \in Orderings(ActiveUsers) :
          LeaderboardTabGet(user, is_staff, all_users)
    /\ UNCHANGED chat

\* a class of NumLearners users, all of them enrolled, none with locked blocks;
\* the requests come from the users of Users
InitClass ==
    /\ enrollment = [u \in 1..NumLearners |-> "active"]
    /\ completion_summary \in
          [ActiveUsers -> {s \in Summaries : s.locked_count = 0}]
    /\ enrollment_created = <<>>
    /\ date_joined = <<>>
    /\ grades = <<>>
    /\ blocks_response = NoBlocks
    /\ block_completions = {}
    /\ resp = NoResponse
    /\ NoChat

InitBoard == InitLeaderboard \/ InitClass

SpecLeaderboard == InitBoard /\ [][NextLeaderboard]_vars

(***************************************************************************)
(* Specification of the grade and progress rankings                        *)
(***************************************************************************)
EmptySummary == [complete_count |-> 0, incomplete_count |-> 0, locked_count |-> 0]

\* user ids are handed out in the order in which the users joined
JoinTimes ==
    {dj \in [ActiveUsers -> Times] :
        \A u, v \in ActiveUsers : u < v => dj[u] <= dj[v]}

\* summaries without locked blocks
OpenSummaries == {s \in Summaries : s.locked_count = 0}

\* the user whose records a single-student course holds
Learner == 1

\* every student enrolled on joining
InitEnrolled ==
    /\ enrollment \in {e \in [Users -> EnrollmentStates] :
                          \A u \in Users \ Students : e[u] = "none"}
    /\ date_joined \in JoinTimes
    /\ enrollment_created = date_joined
    /\ blocks_response = NoBlocks
    /\ block_completions = {}
    /\ resp = NoResponse
    /\ NoChat

\* courses with grades and no completable block: each grade record was written
\* when the student enrolled
InitGrades ==
    /\ InitEnrolled
    /\ \E g \in [ActiveUsers -> 0..(MaxGrade + 1)] :
          grades = [u \in ActiveUsers |->
                       IF g[u] > MaxGrade THEN None
                       ELSE Some([percent_grade |-> g[u],
                                  passed_timestamp |->
                                     IF g[u] = MaxGrade THEN date_joined[u] ELSE NoTime,
                                  modified |-> date_joined[u]])]
    /\ completion_summary = [u \in ActiveUsers |-> EmptySummary]

\* courses with completable blocks and no grade record yet
InitProgress ==
    /\ InitEnrolled
    /\ grades = [u \in ActiveUsers |-> None]
    /\ completion_summary \in [ActiveUsers -> OpenSummaries]

\* the grade records a student can have: passed or not, last written at any time
GradeRecords ==
    [percent_grade : 0..MaxGrade,
     passed_timestamp : {NoTime} \cup Times,
     modified : Times]

\* a course with one student, whose account, enrollment and grade record carry
\* times of their own; created is a nullable column of the enrollment
InitTimes ==
    /\ enrollment = [u \in Users |-> IF u = Learner THEN "active" ELSE "none"]
    /\ date_joined \in [ActiveUsers -> Times]
    /\ enrollment_created \in [ActiveUsers -> {NoTime} \cup Times]
    /\ grades \in [ActiveUsers -> {None} \cup {Some(grade) : grade \in GradeRecords}]
    /\ completion_summary = [u \in ActiveUsers |-> EmptySummary]
    /\ blocks_response = NoBlocks
    /\ block_completions = {}
    /\ resp = NoResponse
    /\ NoChat

InitTop == InitGrades \/ InitProgress \/ InitTimes

\* the limit parameter of a request; DefaultLimit when it is left out
Limits == (-1)..NumStudents \cup {DefaultLimit}

NextTop ==
    /\ resp = NoResponse
    /\ \E user \in Users, is_staff \in BOOLEAN, limit \in Limits,
          all_users \in Orderings(ActiveUsers) :
          \/ TopGradesGet(user, is_staff, limit, all_users)
          \/ TopProgressGet(user, is_staff, limit, all_users)
    /\ UNCHANGED chat

SpecTop == InitTop /\ [][NextTop]_vars

(***************************************************************************)
(* Specification of the badge rollup                                       *)
(***************************************************************************)
\* A course outline lists the blocks below the root in document order.  Every
\* entry is a child of the last present block one level up; a child that is
\* missing from the block map or has another type than its level has no children.
SkippedKinds == {"missing", "wrong type"}

ContainerEntries(level) ==
    {[level |-> level, kind |-> k, at |-> NoTime] : k \in {"present"} \cup SkippedKinds}

\* a unit is skipped, incomplete, flagged complete by get_blocks, or has a
\* BlockCompletion record of the learner
UnitEntries ==
    {[level |-> "vertical", kind |-> k, at |-> NoTime] :
        k \in SkippedKinds \cup {"incomplete", "flagged"}}
    \cup {[level |-> "vertical", kind |-> "recorded", at |-> t] : t \in Times}

\* the position of the last entry of the outline at one of the levels, 0 if none
LastAt(outline, levels) ==
    LET at == {i \in 1..Len(outline) : outline[i].level \in levels}
    IN  IF at = {} THEN 0 ELSE CHOOSE i \in at : \A j \in at : j <= i

\* the entries that can follow an outline
NextEntries(outline, chapter, container) ==
    ContainerEntries("chapter")
    \cup (IF chapter > 0 /\ outline[chapter].kind = "present"
          THEN ContainerEntries("sequential") ELSE {})
    \cup (IF /\ container > 0
             /\ outline[container].level = "sequential"
             /\ outline[container].kind = "present"
          THEN UnitEntries ELSE {})

Extensions(outline) ==
    {Append(outline, entry) :
        entry \in NextEntries(outline, LastAt(outline, {"chapter"}),
                              LastAt(outline, {"chapter", "sequential"}))}

\* the outlines of at most k blocks
RECURSIVE Outlines(_)
Outlines(k) ==
    IF k = 0 THEN {<<>>}
    ELSE Outlines(k - 1)
         \cup UNION {Extensions(outline) :
                        outline \in {o \in Outlines(k - 1) : Len(o) = k - 1}}

RootKey == Key(0, "canonical")

\* the position of the block an entry is a child of, 0 for the root
ParentOf(outline, i) ==
    IF outline[i].level = "chapter" THEN 0
    ELSE LastAt(SubSeq(outline, 1, i - 1),
                IF outline[i].level = "sequential" THEN {"chapter"} ELSE {"sequential"})

\* the children list of the block at position p
ChildrenOf(outline, p) ==
    LET at == SelectSeq([i \in 1..Len(outline) |-> i],
                        LAMBDA i : ParentOf(outline, i) = p)
    IN  [k \in 1..Len(at) |-> Key(at[k], "canonical")]

\* a type get_blocks can return that is not the type of the level
WrongType(level) == IF level = "sequential" THEN "chapter" ELSE "sequential"

\* the block map get_blocks returns for an outline
OutlineBlocks(outline) ==
    [key \in {RootKey} \cup {Key(i, "canonical") :
                                i \in {j \in 1..Len(outline) :
                                          outline[j].kind # "missing"}} |->
        IF key = RootKey
        THEN [type |-> "course", children |-> ChildrenOf(outline, 0),
              complete |-> FALSE]
        ELSE [type |-> IF outline[key[1]].kind = "wrong type"
                       THEN WrongType(outline[key[1]].level)
                       ELSE outline[key[1]].level,
              children |-> ChildrenOf(outline, key[1]),
              complete |-> (outline[key[1]].kind = "flagged")]]

\* the learner's BlockCompletion rows for an outline
OutlineCompletions(outline) ==
    {[user |-> Learner, block_key |-> Key(i, "canonical"),
      modified |-> outline[i].at] :
        i \in {j \in 1..Len(outline) : outline[j].kind = "recorded"}}

\* the badge handler reads the enrollment, the blocks and the completions
InitBadgeOnly ==
    /\ enrollment_created = <<>>
    /\ date_joined = <<>>
    /\ grades = <<>>
    /\ completion_summary = <<>>
    /\ resp = NoResponse
    /\ NoChat

\* courses of at most MaxBlocks blocks, the learner enrolled
InitOutlines ==
    /\ enrollment = [u \in Users |-> IF u = Learner THEN "active" ELSE "none"]
    /\ \E outline \in Outlines(MaxBlocks) :
          /\ blocks_response = [outcome |-> "dict",
                                blocks |-> OutlineBlocks(outline),
                                root |-> Some(RootKey)]
          /\ block_completions = OutlineCompletions(outline)
    /\ InitBadgeOnly

\* the one unit of the courses of InitKeys, and a block outside the course
UnitName == 3
OtherName == 4

\* a course of one chapter, one section and one unit
UnitCourse(unit_id, complete) ==
    (RootKey :> [type |-> "course", children |-> <<Key(1, "canonical")>>,
                 complete |-> FALSE])
    @@ (Key(1, "canonical") :>
            [type |-> "chapter", children |-> <<Key(2, "canonical")>>,
             complete |-> FALSE])
    @@ (Key(2, "canonical") :>
            [type |-> "sequential", children |-> <<unit_id>>, complete |-> FALSE])
    @@ (unit_id :> [type |-> "vertical", children |-> <<>>, complete |-> complete])

\* the rows the learner can have: for the unit under any key string, and for a
\* block outside the course
RecordRows ==
    [user : {Learner},
     block_key : {Key(UnitName, form) : form \in KeyForms}
                    \cup {Key(OtherName, "canonical")},
     modified : Times]

\* at most k rows, no two for one key string
RECURSIVE RecordSets(_)
RecordSets(k) ==
    IF k = 0 THEN {{}}
    ELSE RecordSets(k - 1)
         \cup UNION {{rows \cup {row} :
                        row \in {r \in RecordRows :
                                    \A q \in rows : q.block_key # r.block_key}} :
                        rows \in RecordSets(k - 1)}

\* one unit whose id is written in any form, completion records under any key
InitKeys ==
    /\ enrollment \in {e \in [Users -> EnrollmentStates] :
                          \A u \in Users \ {Learner} : e[u] = "none"}
    /\ \E form \in KeyForms, complete \in BOOLEAN :
          blocks_response = [outcome |-> "dict",
                             blocks |-> UnitCourse(Key(UnitName, form), complete),
                             root |-> Some(RootKey)]
    /\ block_completions \in RecordSets(MaxRecords)
    /\ InitBadgeOnly

\* get_blocks fails or answers without a usable root
InitFetch ==
    /\ enrollment = [u \in Users |-> IF u = Learner THEN "active" ELSE "none"]
    /\ \E complete \in BOOLEAN :
          \/ \E outcome \in {"raises", "not a dict"} :
                blocks_response = [outcome |-> outcome, blocks |-> <<>>, root |-> None]
          \/ \E root \in {None, Some(EmptyString), Some(Key(OtherName, "canonical"))} :
                blocks_response =
                    [outcome |-> "dict",
                     blocks |-> UnitCourse(Key(UnitName, "canonical"), complete),
                     root |-> root]
    /\ block_completions \in RecordSets(1)
    /\ InitBadgeOnly

InitBadge == InitOutlines \/ InitKeys \/ InitFetch

NextBadge ==
    /\ resp = NoResponse
    /\ \E user \in Users, is_staff \in BOOLEAN :
          \E completions \in Orderings(UserCompletions(user)) :
              BadgeGet(user, is_staff, completions)
    /\ UNCHANGED chat

SpecBadge == InitBadge /\ [][NextBadge]_vars

(***************************************************************************)
(* Specification of the four endpoints over one course                     *)
(***************************************************************************)
\* a course of one unit with the records of its learner: account, enrollment,
\* completion summary and block completions
InitUnit ==
    /\ enrollment \in {e \in [Users -> EnrollmentStates] :
                          \A u \in Users \ {Learner} : e[u] = "none"}
    /\ date_joined \in [ActiveUsers -> Times]
    /\ enrollment_created = date_joined
    /\ grades = [u \in ActiveUsers |-> None]
    /\ completion_summary \in [ActiveUsers -> OpenSummaries]
    /\ \E complete \in BOOLEAN :
          blocks_response = [outcome |-> "dict",
                             blocks |-> UnitCourse(Key(UnitName, "canonical"), complete),
                             root |-> Some(RootKey)]
    /\ block_completions \in RecordSets(1)
    /\ resp = NoResponse
    /\ NoChat

InitCourse == InitTop \/ InitUnit

\* a request to any of the four endpoints
NextCourse == NextLeaderboard \/ NextTop \/ NextBadge

SpecCourse == InitCourse /\ [][NextCourse]_vars

(***************************************************************************)
(* Specification of the course chat: the requests in flight interleave     *)
(* statement by statement                                                  *)
(***************************************************************************)
\* the course-home records, which the chat handlers never read
NoCourseData ==
    /\ enrollment = <<>>
    /\ enrollment_created = <<>>
    /\ date_joined = <<>>
    /\ grades = <<>>
    /\ completion_summary = <<>>
    /\ blocks_response = NoBlocks
    /\ block_completions = {}
    /\ resp = NoResponse

\* the members of the chat: member 1 is enrolled in course 1 and may be a site
\* admin; the others are enrolled in no course, in course 1 or in every course
InitMembers ==
    /\ \E admin \in BOOLEAN : site_admin = [u \in Members |-> u = 1 /\ admin]
    /\ \E courses \in {{}, {1}, Courses} :
          chat_enrolled = [u \in Members |-> IF u = 1 THEN {1} ELSE courses]
    /\ requests = [p \in Procs |-> Idle]

\* the general room of every course, in the order of the courses
GeneralRooms == [c \in Courses |-> [course_id |-> c, chat_type |-> "general"]]

\* a stored message, deleted by its author right after it was written or not
StoredMessage(room, user, created_at, is_deleted) ==
    [NewMessage(room, user, created_at) EXCEPT
        !.is_deleted = is_deleted,
        !.deleted_by = IF is_deleted THEN user ELSE 0,
        !.deleted_at = IF is_deleted THEN created_at ELSE NoTime]

\* no chat was ever used: no room, no message
InitChatEmpty ==
    /\ NoCourseData
    /\ InitMembers
    /\ chat_rooms = <<>>
    /\ chat_messages = <<>>
    /\ chat_clock = 1

\* the general rooms hold MaxMessages messages: the first by member 1 in the
\* room of course 1, the others by the other members in any room
InitChatRooms ==
    /\ NoCourseData
    /\ InitMembers
    /\ chat_rooms = GeneralRooms
    /\ \E room \in [1..MaxMessages -> Courses], is_deleted \in [1..MaxMessages -> BOOLEAN] :
          /\ room[1] = 1
          /\ chat_messages =
                [i \in 1..MaxMessages |->
                    StoredMessage(room[i], IF i = 1 THEN 1 ELSE 2 + (i % (NumMembers - 1)),
                                  (i + 1) \div 2, is_deleted[i])]
    /\ chat_clock = MaxMessages + 1

\* the number of messages of a room that holds more than one answer lists
BusyMessages == MessageLimit + MaxMessages - 1

\* the general room of course 1 holds more than MessageLimit messages, written
\* one after the other by the members in turn; the latest is deleted or not
InitChatBusy ==
    /\ NoCourseData
    /\ site_admin = [u \in Members |-> FALSE]
    /\ chat_enrolled = [u \in Members |-> {1}]
    /\ requests = [p \in Procs |-> Idle]
    /\ chat_rooms = GeneralRooms
    /\ \E is_deleted \in BOOLEAN :
          chat_messages =
             [i \in 1..BusyMessages |->
                 StoredMessage(1, 1 + (i % NumMembers), i,
                               is_deleted /\ i = BusyMessages)]
    /\ chat_clock = BusyMessages + 1

InitChat == InitChatEmpty \/ InitChatRooms \/ InitChatBusy

\* a step of a chat request: a new request reaches a handler, or a request in
\* flight executes its next statement; the request slots are taken in order
NextChat ==
    /\ \E p \in Procs :
          \/ /\ IF p = 1 THEN TRUE ELSE requests[p - 1].pc # "idle"
             /\ \E user \in Members, course_id \in Courses, chat_type \in RequestTypes :
                   \/ ListMessages(p, user, course_id, chat_type)
                   \/ \E has_text \in BOOLEAN :
                         CreateMessage(p, user, course_id, chat_type, has_text)
                   \/ \E message_id \in MessageIds :
                         DeleteMessage(p, user, course_id, chat_type, message_id)
          \/ GetRoom(p)
          \/ CreateRoom(p)
          \/ QueryMessages(p)
          \/ InsertMessage(p)
          \/ FindMessage(p)
          \/ SaveMessage(p)
    /\ UNCHANGED <<stored, resp>>

SpecChat == InitChat /\ [][NextChat]_vars

(***************************************************************************)
(* Properties of the completion leaderboard                                *)
(***************************************************************************)
LeaderboardServed == resp.endpoint = "leaderboard" /\ resp.status = 200

\* the leaderboard list holds the active learners, each with the completion
\* percent of the stored summary, by percent descending then username ascending
LeaderboardSorted(lb) ==
    /\ Len(lb) = Cardinality(ActiveUsers)
    /\ {lb[i].user_id : i \in 1..Len(lb)} = ActiveUsers
    /\ \A i \in 1..Len(lb) :
          /\ lb[i].grade_percent = CompletionPercent(completion_summary[lb[i].user_id])
          /\ lb[i].username = Username(lb[i].user_id)
    /\ \A i, j \in 1..Len(lb) :
          i < j => \/ FracLess(lb[j].grade_percent, lb[i].grade_percent)
                   \/ /\ lb[j].grade_percent = lb[i].grade_percent
                      /\ lb[i].username < lb[j].username

\* C1: shared-rank policy.  In the list sorted by completion percent descending
\* then username ascending the first entry has rank 1, an entry whose score
\* equals the score of the entry before it has that entry's rank, and an entry
\* whose score is strictly lower has its 1-based position as rank.
C1_SharedRank ==
    LeaderboardServed =>
        LET lb == resp.body[1].leaderboard
        IN  /\ LeaderboardSorted(lb)
            /\ \A i \in 1..Len(lb) :
                  lb[i].rank =
                    IF i = 1 THEN 1
                    ELSE IF lb[i].grade_percent = lb[i - 1].grade_percent
                         THEN lb[i - 1].rank
                         ELSE i

\* two learners tie ahead of a third with a lower score: ranks 1, 1, 3
C1_Witness ==
    /\ LeaderboardServed
    /\ LET lb == resp.body[1].leaderboard
       IN  /\ Len(lb) = 3
           /\ lb[1].grade_percent = lb[2].grade_percent
           /\ FracLess(lb[3].grade_percent, lb[2].grade_percent)
           /\ <<lb[1].rank, lb[2].rank, lb[3].rank>> = <<1, 1, 3>>

TopGradesServed == resp.endpoint = "top_grades" /\ resp.status = 200
TopProgressServed == resp.endpoint = "top_progress" /\ resp.status = 200
TopServed == TopGradesServed \/ TopProgressServed

\* the score of an entry of either ranking
Score(e) == IF TopGradesServed THEN e.grade_percentage ELSE e.progress_percent

\* the score the stored records give a student in the ranking that was served
StoredScore(u) ==
    IF TopGradesServed
    THEN IF grades[u] = None THEN 0 ELSE GradePercent(grades[u][1])
    ELSE ProgressPercent(completion_summary[u])

\* the full ranking holds every active student once, with the stored score
FullRanking(all) ==
    /\ Len(all) = Cardinality(ActiveUsers)
    /\ {all[i].user_id : i \in 1..Len(all)} = ActiveUsers
    /\ \A i \in 1..Len(all) :
          /\ Score(all[i]) = StoredScore(all[i].user_id)
          /\ all[i].tie_breaker_time \in Times
          /\ all[i].is_current_user = (all[i].user_id = resp.user)

\* C2: ordinal-rank policy of TopGradesView and TopProgressView.  The full
\* ranking is sorted by score descending then tie-breaker time ascending, every
\* entry's rank is its 1-based position, so the ranks are pairwise distinct even
\* for equal scores, and of two students with equal score the one with the
\* earlier tie-breaker time has the smaller rank.
C2_OrdinalRank ==
    TopServed =>
        LET all == resp.body[1].all_students_with_rank
        IN  /\ FullRanking(all)
            /\ \A i \in 1..Len(all) : all[i].rank = i
            /\ \A i, j \in 1..Len(all) :
                  /\ i < j =>
                        \/ Score(all[i]) > Score(all[j])
                        \/ /\ Score(all[i]) = Score(all[j])
                           /\ all[i].tie_breaker_time <= all[j].tie_breaker_time
                  /\ i # j => all[i].rank # all[j].rank
                  /\ (/\ Score(all[i]) = Score(all[j])
                      /\ all[i].tie_breaker_time < all[j].tie_breaker_time)
                        => all[i].rank < all[j].rank

\* two students with the same grade above 0, graded at t1 < t2: ranks 1 and 2
C2_Witness ==
    /\ TopGradesServed
    /\ LET all == resp.body[1].all_students_with_rank
       IN  /\ Len(all) = 2
           /\ all[1].grade_percentage = all[2].grade_percentage
           /\ all[1].grade_percentage > 0
           /\ all[1].tie_breaker_time < all[2].tie_breaker_time
           /\ <<all[1].rank, all[2].rank>> = <<1, 2>>

\* C3: for a limit L >= 0 and n ranked students top_students is the first
\* min(L, n) entries of the full ranking; current_user_entry is set exactly when
\* the requesting user is in the full ranking at a rank greater than L, and is
\* then the user's entry of the full ranking, with that rank; when the user is
\* inside top_students it is null.
C3_TopStudents ==
    (TopServed /\ resp.body[1].limit >= 0) =>
        LET body == resp.body[1]
            all == body.all_students_with_rank
            L == body.limit
            n == Len(all)
            mine == {i \in 1..n : all[i].user_id = resp.user}
        IN  /\ body.top_students = SubSeq(all, 1, IF L < n THEN L ELSE n)
            /\ (body.current_user_entry # None)
                  = (\E i \in mine : all[i].rank > L)
            /\ \A i \in mine :
                  /\ all[i].rank > L =>
                        /\ body.current_user_entry = Some(all[i])
                        /\ body.current_user_entry[1].rank = i
                  /\ (\E k \in 1..Len(body.top_students) :
                          body.top_students[k].user_id = resp.user)
                        => body.current_user_entry = None

\* the requesting user is second of two and the limit is 1
C3_Witness ==
    /\ TopProgressServed
    /\ LET body == resp.body[1]
       IN  /\ body.limit = 1
           /\ Len(body.all_students_with_rank) = 2
           /\ Len(body.top_students) = 1
           /\ body.top_students[1].user_id # resp.user
           /\ body.current_user_entry # None
           /\ body.current_user_entry[1].rank = 2
           /\ body.current_user_entry[1].user_id = resp.user

BadgeServed == resp.endpoint = "badge" /\ resp.status = 200

\* get_blocks answered a block map that holds its root
TreeFetched ==
    /\ blocks_response.outcome = "dict"
    /\ blocks_response.root # None
    /\ blocks_response.root # Some(EmptyString)
    /\ blocks_response.root[1] \in DOMAIN blocks_response.blocks

\* the completion records of the requesting user whose key is the unit id, in
\* the original or the canonical form of either
RecordsOf(unit_id) ==
    {row \in UserCompletions(resp.user) :
        \/ row.block_key = unit_id
        \/ Normalize(row.block_key) = Some(unit_id)
        \/ /\ Normalize(unit_id) # None
           /\ \/ Some(row.block_key) = Normalize(unit_id)
              \/ Normalize(row.block_key) = Normalize(unit_id)}

\* the verticals of the fetched block map
StoredUnits ==
    {key \in DOMAIN blocks_response.blocks :
        blocks_response.blocks[key].type = "vertical"}

\* a stored unit is complete by its inline flag or by a completion record
StoredComplete(unit_id) ==
    blocks_response.blocks[unit_id].complete \/ RecordsOf(unit_id) # {}

\* the section summaries and the unit summaries of a list of chapter summaries
SectionsOf(chapters) ==
    UNION {{chapters[c].sections[s] : s \in 1..Len(chapters[c].sections)} :
              c \in 1..Len(chapters)}

UnitsOf(chapters) ==
    UNION {{section.units[u] : u \in 1..Len(section.units)} :
              section \in SectionsOf(chapters)}

AllMarkedCompleted(body) ==
    /\ body.summary.completion_percentage = 1000
    /\ \A c \in 1..Len(body.chapters) : body.chapters[c].is_completed
    /\ \A section \in SectionsOf(body.chapters) : section.is_completed

\* C6 as stated: for every block tree in which every unit (vertical) is
\* complete, completion_percentage is 100.0 and every chapter summary and every
\* section summary has is_completed true (here for the trees that hold a unit).
C6_AllUnitsComplete ==
    (/\ BadgeServed
     /\ TreeFetched
     /\ StoredUnits # {}
     /\ \A unit_id \in StoredUnits : StoredComplete(unit_id))
        => AllMarkedCompleted(resp.body[1])

\* C6, amended: for every block tree with at least one counted chapter, in which
\* every counted chapter has at least one counted section, every counted section
\* at least one counted unit, and every unit is complete, completion_percentage
\* is 100.0 and every chapter summary and section summary has is_completed true.
C6_AllUnitsCompleteNonEmpty ==
    (/\ BadgeServed
     /\ TreeFetched
     /\ \A unit_id \in StoredUnits : StoredComplete(unit_id)
     /\ Len(resp.body[1].chapters) > 0
     /\ \A c \in 1..Len(resp.body[1].chapters) :
           resp.body[1].chapters[c].total_sections > 0
     /\ \A section \in SectionsOf(resp.body[1].chapters) : section.total_units > 0)
        => AllMarkedCompleted(resp.body[1])

\* a chapter of one section with a unit flagged complete and a unit with a
\* completion record: 100.0
C6_Witness ==
    /\ BadgeServed
    /\ TreeFetched
    /\ \A unit_id \in StoredUnits : StoredComplete(unit_id)
    /\ \E unit_id \in StoredUnits : blocks_response.blocks[unit_id].complete
    /\ \E unit_id \in StoredUnits : ~blocks_response.blocks[unit_id].complete
    /\ Len(resp.body[1].chapters) = 1
    /\ resp.body[1].chapters[1].is_completed
    /\ resp.body[1].chapters[1].total_sections = 1
    /\ resp.body[1].summary.total_units = 2
    /\ resp.body[1].summary.completion_percentage = 1000

\* C7: when the root id is absent (None or empty) or is not a key of the block
\* map, _build_badge_data returns the empty rollup: the counters of the summary
\* are 0, completion_percentage is 0.0 and chapters is the empty list; the
\* request is answered normally.
C7_EmptyRollup ==
    /\ \A root \in {None, Some(EmptyString), Some(Key(MaxBlocks + 1, "canonical"))} :
          LET badge_data == BuildBadgeData([blocks |-> blocks_response.blocks,
                                            root |-> root], <<>>)
          IN  /\ badge_data.chapters = <<>>
              /\ \A field \in DOMAIN badge_data.summary :
                    badge_data.summary[field] = 0
              /\ DOMAIN badge_data.summary =
                    {"total_chapters", "completed_chapters", "total_sections",
                     "completed_sections", "total_units", "completed_units",
                     "completion_percentage"}
    /\ (BadgeServed /\ ~TreeFetched) =>
          /\ resp.body[1].chapters = <<>>
          /\ \A field \in DOMAIN resp.body[1].summary :
                resp.body[1].summary[field] = 0

\* get_blocks names a root that is not in its block map, which holds a unit
\* flagged complete: the rollup is empty
C7_Witness ==
    /\ BadgeServed
    /\ blocks_response.outcome = "dict"
    /\ blocks_response.root # None
    /\ blocks_response.root # Some(EmptyString)
    /\ blocks_response.root[1] \notin DOMAIN blocks_response.blocks
    /\ \E unit_id \in StoredUnits : blocks_response.blocks[unit_id].complete
    /\ resp.body[1].chapters = <<>>
    /\ resp.body[1].summary.total_units = 0
    /\ resp.body[1].summary.completion_percentage = 0

\* C8: a section summary is completed iff it has at least one counted unit and
\* every counted unit is completed; a chapter summary is completed iff it has
\* at least one counted section and every counted section is completed.  A
\* section without units and a chapter without sections are never completed.
C8_CompletedIff ==
    BadgeServed =>
        /\ \A section \in SectionsOf(resp.body[1].chapters) :
              section.is_completed =
                 (/\ Len(section.units) > 0
                  /\ \A u \in 1..Len(section.units) : section.units[u].is_completed)
        /\ \A c \in 1..Len(resp.body[1].chapters) :
              LET chapter == resp.body[1].chapters[c]
              IN  chapter.is_completed =
                     (/\ Len(chapter.sections) > 0
                      /\ \A s \in 1..Len(chapter.sections) :
                            chapter.sections[s].is_completed)

\* a chapter whose first section is completed and whose second section has no
\* unit: neither that section nor the chapter is completed
C8_Witness ==
    /\ BadgeServed
    /\ Len(resp.body[1].chapters) = 1
    /\ LET chapter == resp.body[1].chapters[1]
       IN  /\ Len(chapter.sections) = 2
           /\ chapter.sections[1].is_completed
           /\ chapter.sections[2].units = <<>>
           /\ ~chapter.sections[2].is_completed
           /\ ~chapter.is_completed

\* the latest of a set of completed_at values, None for none
LatestOf(stamps) ==
    IF stamps = {} THEN None
    ELSE Some(CHOOSE x \in stamps : \A y \in stamps : ~IsoAfter(y, x))

\* C9 as stated: completed_at of a chapter summary is the maximum of the
\* completed_at values of its sections where defined and is null whenever the
\* chapter is not completed; completed_at of a section summary is the maximum of
\* its units' completion timestamps and is null whenever the section is not
\* completed or no unit timestamp is available.
C9_CompletedAt ==
    BadgeServed =>
        /\ \A section \in SectionsOf(resp.body[1].chapters) :
              section.completed_at =
                 IF section.is_completed
                 THEN LatestOf({section.units[u].completed_at[1] :
                                  u \in {v \in 1..Len(section.units) :
                                            section.units[v].completed_at # None}})
                 ELSE None
        /\ \A c \in 1..Len(resp.body[1].chapters) :
              LET chapter == resp.body[1].chapters[c]
              IN  chapter.completed_at =
                     IF chapter.is_completed
                     THEN LatestOf({chapter.sections[s].completed_at[1] :
                                      s \in {v \in 1..Len(chapter.sections) :
                                                chapter.sections[v].completed_at # None}})
                     ELSE None

\* C10: a unit summary is completed iff the block carries the inline complete
\* flag or the unit id, as written or in canonical form, is a key of the
\* completion lookup, which holds every record of the requesting user under the
\* string of its key and under its canonical form; completed_at is the time of a
\* record found under either form, else null; a record whose key has the
\* canonical form of the unit id always marks the unit completed.
C10_UnitCompleted ==
    BadgeServed =>
        \A unit \in UnitsOf(resp.body[1].chapters) :
            /\ unit.is_completed =
                  (\/ blocks_response.blocks[unit.unit_id].complete
                   \/ RecordsOf(unit.unit_id) # {})
            /\ (unit.completed_at = None) = (RecordsOf(unit.unit_id) = {})
            /\ unit.completed_at # None =>
                  \E row \in RecordsOf(unit.unit_id) :
                      unit.completed_at = Some(IsoFormat(row.modified))
            /\ \A row \in UserCompletions(resp.user) :
                  (/\ Normalize(row.block_key) # None
                   /\ Normalize(row.block_key) = Normalize(unit.unit_id))
                     => unit.is_completed

\* the unit id is canonical, the block is not flagged, and the only record is
\* stored under the legacy form of the key: completed at the record's time
C10_Witness ==
    /\ BadgeServed
    /\ \E unit \in UnitsOf(resp.body[1].chapters) :
          /\ unit.unit_id = Key(UnitName, "canonical")
          /\ ~blocks_response.blocks[unit.unit_id].complete
          /\ UserCompletions(resp.user) =
                {[user |-> resp.user, block_key |-> Key(UnitName, "legacy"),
                  modified |-> MaxTime]}
          /\ unit.is_completed
          /\ unit.completed_at = Some(IsoFormat(MaxTime))


\* C11: in the course summary, total_units and completed_units are the sums of
\* the per-section total_units and completed_units over all sections of all
\* chapter summaries, total_sections and completed_sections are the sums of the
\* per-chapter counts, and completion_percentage is
\* completed_units / total_units * 100 rounded to one decimal, 0.0 when
\* total_units is 0.
C11_SummaryTotals ==
    BadgeServed =>
        LET chapters == resp.body[1].chapters
            summary == resp.body[1].summary
            section_sum(c, field) ==
                SumSeq([s \in 1..Len(chapters[c].sections) |->
                           chapters[c].sections[s][field]])
        IN  /\ summary.total_sections =
                  SumSeq([c \in 1..Len(chapters) |-> chapters[c].total_sections])
            /\ summary.completed_sections =
                  SumSeq([c \in 1..Len(chapters) |-> chapters[c].completed_sections])
            /\ summary.total_units =
                  SumSeq([c \in 1..Len(chapters) |-> section_sum(c, "total_units")])
            /\ summary.completed_units =
                  SumSeq([c \in 1..Len(chapters) |-> section_sum(c, "completed_units")])
            /\ IF summary.total_units = 0
               THEN summary.completion_percentage = 0
               ELSE summary.completion_percentage
                       \in RoundNearest(summary.completed_units * 1000,
                                        summary.total_units)

\* two of the three units of a course are completed: 66.7
C11_Witness ==
    /\ BadgeServed
    /\ resp.body[1].summary.total_units = 3
    /\ resp.body[1].summary.completed_units = 2
    /\ resp.body[1].summary.completion_percentage = 667


\* the requesting user passed the enrollment check of the badge endpoint
BadgeAdmitted ==
    /\ resp.endpoint = "badge"
    /\ (enrollment[resp.user] = "active" \/ resp.is_staff)

\* C12: for a user who passed the enrollment check, a block-tree fetch that
\* fails (get_blocks raises, answers something that is no dict, names no root,
\* or names a root that is not in the block map) is absorbed: the badge endpoint
\* answers 200 with the zero-valued summary and an empty chapter list.
C12_FetchFailureAbsorbed ==
    (BadgeAdmitted /\ ~TreeFetched) =>
        /\ resp.status = 200
        /\ resp.body # None
        /\ resp.body[1].chapters = <<>>
        /\ resp.body[1].summary =
              [total_chapters |-> 0, completed_chapters |-> 0,
               total_sections |-> 0, completed_sections |-> 0,
               total_units |-> 0, completed_units |-> 0,
               completion_percentage |-> 0]

\* get_blocks raised for the enrolled learner, who has a completion record: the
\* answer is 200 with the empty rollup
C12_Witness ==
    /\ BadgeServed
    /\ blocks_response.outcome = "raises"
    /\ enrollment[resp.user] = "active"
    /\ UserCompletions(resp.user) # {}
    /\ resp.body[1].chapters = <<>>
    /\ resp.body[1].summary.total_chapters = 0


\* C13: no exception leaves the badge aggregation.  When a block-key string
\* does not reparse into canonical form, while the completion lookup is built or
\* while a unit is matched, the failure is a lookup miss: the match on the string
\* as written stands, and the rollup holds every unit of the course, each other
\* unit matched by the records that do parse.
C13_ReparseFailureIsMiss ==
    BadgeAdmitted =>
        /\ resp.status = 200
        /\ resp.body # None
        /\ TreeFetched =>
              {unit.unit_id : unit \in UnitsOf(resp.body[1].chapters)} = StoredUnits
        /\ \A unit \in UnitsOf(resp.body[1].chapters) :
              LET flagged == blocks_response.blocks[unit.unit_id].complete
                  rows == UserCompletions(resp.user)
                  raw == {row \in rows : row.block_key = unit.unit_id}
              IN  IF Normalize(unit.unit_id) = None
                  THEN /\ unit.is_completed = (flagged \/ raw # {})
                       /\ unit.completed_at \in
                             IF raw = {} THEN {None}
                             ELSE {Some(IsoFormat(row.modified)) : row \in raw}
                  ELSE unit.is_completed =
                          (\/ flagged
                           \/ \E row \in rows :
                                 /\ Normalize(row.block_key) # None
                                 /\ Normalize(row.block_key) = Normalize(unit.unit_id))

\* the unit id does not parse; the learner has a record under the same string
\* and a record under the canonical string of the unit: the unit is completed at
\* the time of the record under the string as written
C13_Witness ==
    /\ BadgeServed
    /\ UserCompletions(resp.user) =
          {[user |-> resp.user, block_key |-> Key(UnitName, "invalid"),
            modified |-> MaxTime],
           [user |-> resp.user, block_key |-> Key(UnitName, "canonical"),
            modified |-> 1]}
    /\ \E unit \in UnitsOf(resp.body[1].chapters) :
          /\ unit.unit_id = Key(UnitName, "invalid")
          /\ ~blocks_response.blocks[unit.unit_id].complete
          /\ unit.is_completed
          /\ unit.completed_at = Some(IsoFormat(MaxTime))


\* the ranking the served endpoint computes when the users are fetched in the
\* order all_users
RankedFrom(all_users) ==
    IF TopGradesServed
    THEN GradesWithRank(SortGrades([i \in 1..Len(all_users) |->
                                       GradeEntry(all_users[i], resp.user)]))
    ELSE ProgressWithRank(SortProgress([i \in 1..Len(all_users) |->
                                           ProgressEntry(all_users[i], resp.user)]))

\* C14 as stated: under the ordinal-rank policy the sort key (score descending,
\* tie-breaker time ascending) is a total order on the students: no two distinct
\* students compare as equal, so the ranks of TopGradesView and TopProgressView
\* depend on the student records only and not on the order in which they were
\* fetched.
C14_TotalOrder ==
    TopServed =>
        LET all == resp.body[1].all_students_with_rank
        IN  /\ \A i, j \in 1..Len(all) :
                  i # j => \/ Score(all[i]) # Score(all[j])
                           \/ SortTime(all[i]) # SortTime(all[j])
            /\ \A all_users \in Orderings(ActiveUsers) : RankedFrom(all_users) = all


\* the first of a list of times that is present, NoTime if none is
RECURSIVE FirstAvailable(_)
FirstAvailable(times) ==
    IF times = <<>> THEN NoTime
    ELSE IF Head(times) # NoTime THEN Head(times)
    ELSE FirstAvailable(Tail(times))

\* the passed timestamp and the modified time of a user's grade record, NoTime
\* without a record
StoredPassed(u) == IF grades[u] = None THEN NoTime ELSE grades[u][1].passed_timestamp

StoredModified(u) == IF grades[u] = None THEN NoTime ELSE grades[u][1].modified

\* C15 as stated: the tie-breaker timestamp of a student in TopGradesView is the
\* first available of the grade passed timestamp, the enrollment creation time
\* and the account-creation time; in TopProgressView of the enrollment creation
\* time and the account-creation time; it is never missing.
C15_TieBreaker ==
    TopServed =>
        \A entry \in Range(resp.body[1].all_students_with_rank) :
            LET u == entry.user_id
            IN  /\ entry.tie_breaker_time # NoTime
                /\ entry.tie_breaker_time =
                      IF TopGradesServed
                      THEN FirstAvailable(<<StoredPassed(u), enrollment_created[u],
                                            date_joined[u]>>)
                      ELSE FirstAvailable(<<enrollment_created[u], date_joined[u]>>)

\* C15, amended: in TopGradesView the tie-breaker timestamp is the first
\* available of the grade passed timestamp, the modified time of the grade
\* record, the enrollment creation time and the account-creation time; in
\* TopProgressView of the enrollment creation time and the account-creation
\* time; it is never missing.
C15_TieBreakerGradeTime ==
    TopServed =>
        \A entry \in Range(resp.body[1].all_students_with_rank) :
            LET u == entry.user_id
            IN  /\ entry.tie_breaker_time # NoTime
                /\ entry.tie_breaker_time =
                      IF TopGradesServed
                      THEN FirstAvailable(<<StoredPassed(u), StoredModified(u),
                                            enrollment_created[u], date_joined[u]>>)
                      ELSE FirstAvailable(<<enrollment_created[u], date_joined[u]>>)

\* a student with a grade record that was never passed, written after the
\* enrollment was created: the tie-breaker is the time the record was written
C15_Witness ==
    /\ TopGradesServed
    /\ \E entry \in Range(resp.body[1].all_students_with_rank) :
          /\ grades[entry.user_id] # None
          /\ StoredPassed(entry.user_id) = NoTime
          /\ StoredModified(entry.user_id) = MaxTime
          /\ enrollment_created[entry.user_id] = 1
          /\ entry.tie_breaker_time = MaxTime


(***************************************************************************)
(* Properties of the four endpoints                                        *)
(***************************************************************************)
\* the full ranking of a served ranking endpoint
RankingServed == LeaderboardServed \/ TopServed

FullRankingServed ==
    IF LeaderboardServed THEN resp.body[1].leaderboard
    ELSE resp.body[1].all_students_with_rank

\* the user has no completable block in get_course_blocks_completion_summary
NoCompletionData(u) ==
    completion_summary[u].complete_count + completion_summary[u].incomplete_count
        + completion_summary[u].locked_count = 0

Endpoints == {"badge", "leaderboard", "top_grades", "top_progress"}

C18_TopPerformers ==
    LeaderboardServed =>
        LET lb == resp.body[1].leaderboard
            top == resp.body[1].top_performers
        IN  /\ {lb[i].user_id : i \in 1..Len(lb)} = ActiveUsers
            /\ Len(lb) = Cardinality(ActiveUsers)
            /\ resp.body[1].total_students = Len(lb)
            /\ Len(top) = IF Len(lb) < 3 THEN Len(lb) ELSE 3
            /\ \A i \in 1..Len(top) : top[i] = lb[i]

\* four students, the third and the fourth sharing a rank: the leaderboard
\* holds all four, top_performers the first three
C18_Witness ==
    /\ LeaderboardServed
    /\ Len(resp.body[1].leaderboard) = 4
    /\ resp.body[1].leaderboard[3].rank = resp.body[1].leaderboard[4].rank
    /\ Len(resp.body[1].top_performers) = 3
    /\ resp.body[1].top_performers[3] = resp.body[1].leaderboard[3]


\* the children of a block that are in the block map with the given type, in
\* the order of the children list
CountedChildren(block_id, type) ==
    SelectSeq(blocks_response.blocks[block_id].children,
              LAMBDA id : /\ id \in DOMAIN blocks_response.blocks
                          /\ blocks_response.blocks[id].type = type)

\* the number of entries of a list of summaries that are completed
CompletedIn(summaries) ==
    Cardinality({i \in 1..Len(summaries) : summaries[i].is_completed})

\* C19: the rollup counts a child only when it is in the block map and has the
\* type of its level (chapter under the root, sequential under a chapter,
\* vertical under a sequential); every other child is skipped and adds to no
\* total and no completed count and takes no part in is_completed of its parent.
C19_CountedChildren ==
    (BadgeServed /\ TreeFetched) =>
        LET body == resp.body[1]
        IN  /\ [c \in 1..Len(body.chapters) |-> body.chapters[c].chapter_id]
                  = CountedChildren(blocks_response.root[1], "chapter")
            /\ body.summary.total_chapters = Len(body.chapters)
            /\ body.summary.completed_chapters = CompletedIn(body.chapters)
            /\ \A c \in 1..Len(body.chapters) :
                  LET chapter == body.chapters[c]
                  IN  /\ [s \in 1..Len(chapter.sections) |->
                             chapter.sections[s].section_id]
                            = CountedChildren(chapter.chapter_id, "sequential")
                      /\ chapter.total_sections = Len(chapter.sections)
                      /\ chapter.completed_sections = CompletedIn(chapter.sections)
                      /\ chapter.is_completed =
                            (/\ chapter.sections # <<>>
                             /\ CompletedIn(chapter.sections) = Len(chapter.sections))
            /\ \A section \in SectionsOf(body.chapters) :
                  /\ [u \in 1..Len(section.units) |-> section.units[u].unit_id]
                        = CountedChildren(section.section_id, "vertical")
                  /\ section.total_units = Len(section.units)
                  /\ section.completed_units = CompletedIn(section.units)
                  /\ section.is_completed =
                        (/\ section.units # <<>>
                         /\ CompletedIn(section.units) = Len(section.units))

\* a section with three children, of which one is missing from the block map,
\* one has another type and one is a completed vertical: one unit, completed
C19_Witness ==
    /\ BadgeServed
    /\ TreeFetched
    /\ \E section \in SectionsOf(resp.body[1].chapters) :
          LET children == blocks_response.blocks[section.section_id].children
          IN  /\ Len(children) = 3
              /\ \E i \in 1..3 : children[i] \notin DOMAIN blocks_response.blocks
              /\ \E i \in 1..3 :
                    /\ children[i] \in DOMAIN blocks_response.blocks
                    /\ blocks_response.blocks[children[i]].type # "vertical"
              /\ section.total_units = 1
              /\ section.is_completed
    /\ resp.body[1].summary.total_units = 1
    /\ resp.body[1].summary.completion_percentage = 1000


\* the body the served endpoint answers to the same request when the rows are
\* fetched in the order all_users, for a request to a ranking endpoint; the
\* rounded average or percentile is taken as served
RankingBodyFrom(all_users) ==
    LET ranked == RankedFrom(all_users)
        served == resp.body[1]
    IN  IF TopGradesServed
        THEN TopGradesBody(served.limit, Cardinality(ActiveUsers), ranked,
                           [i \in 1..Len(ranked) |-> ranked[i].grade_percentage],
                           SliceTo(ranked, served.limit), CurrentUserEntry(ranked),
                           served.summary.avg_grade)
        ELSE TopProgressBody(served.limit, ranked, SliceTo(ranked, served.limit),
                             CurrentUserEntry(ranked), served.summary.avg_progress)

LeaderboardBodyFrom(all_users) ==
    LET leaderboard_data ==
            LeaderboardEntries(
                SortCompletion([i \in 1..Len(all_users) |->
                                   CompletionEntry(all_users[i], resp.user)]))
        served == resp.body[1]
    IN  LeaderboardBody(leaderboard_data, CurrentUserEntry(leaderboard_data),
                        IF served.current_user_rank = None THEN 0
                        ELSE served.current_user_rank[1].percentile)

\* the answer served is the answer to every request of the same user over the
\* stored data, in whatever order the rows are fetched
SameAnswer ==
    /\ TopServed =>
          \A all_users \in Orderings(ActiveUsers) :
              RankingBodyFrom(all_users) = resp.body[1]
    /\ LeaderboardServed =>
          \A all_users \in Orderings(ActiveUsers) :
              LeaderboardBodyFrom(all_users) = resp.body[1]
    /\ BadgeServed =>
          \A completions \in Orderings(UserCompletions(resp.user)) :
              BuildBadgeData(GetCourseStructure(blocks_response),
                             GetUserCompletions(completions)) = resp.body[1]

\* the handlers change no stored enrollment, grade, completion or user record
StoredUnchanged == [][stored' = stored]_vars

\* C20 as stated: the GET handlers of BadgeView, LeaderboardTabView,
\* TopGradesView and TopProgressView are read-only: they change no stored
\* enrollment, grade, completion or user record and keep nothing between
\* requests, so two requests by the same user over the same stored data return
\* the same summary, ranking and rollup.
C20_ReadOnly == StoredUnchanged /\ []SameAnswer


(***************************************************************************)
(* Properties of the course chat                                           *)
(***************************************************************************)
\* request slot p is answered by the step
Answered(p) == requests[p].pc # "done" /\ requests'[p].pc = "done"

\* the ids of the messages of a list_messages answer, in the order of the answer
ListedIds(response) ==
    [k \in 1..Len(response.body[1].messages) |-> response.body[1].messages[k].id]

\* C21: delete_message is a soft delete.  The step that answers a delete request
\* 200 leaves the row of the message in place with is_deleted true, deleted_by
\* the requester and deleted_at the current time; no step removes a message row
\* or makes a deleted message undeleted; and the query of list_messages never
\* returns a message that is deleted when it runs.
C21_SoftDelete ==
    [][/\ Len(chat_messages') >= Len(chat_messages)
       /\ \A i \in 1..Len(chat_messages) :
             chat_messages[i].is_deleted => chat_messages'[i].is_deleted
       /\ \A p \in Procs :
             Answered(p) =>
                /\ (requests[p].op = "delete" /\ requests'[p].response.status = 200) =>
                      chat_messages'[requests[p].message_id] =
                         [chat_messages[requests[p].message_id] EXCEPT
                             !.is_deleted = TRUE,
                             !.deleted_by = requests[p].user,
                             !.deleted_at = chat_clock]
                /\ (requests[p].op = "list" /\ requests'[p].response.status = 200) =>
                      \A k \in 1..Len(ListedIds(requests'[p].response)) :
                         ~chat_messages'[ListedIds(requests'[p].response)[k]].is_deleted]_vars

\* a delete request was answered 200 and a list request for the room of the
\* deleted message, which holds fewer messages than one answer lists, was
\* answered without that message: the list ran after the delete
C21_Witness ==
    \E p, q \in Procs :
        /\ requests[p].pc = "done" /\ requests[p].op = "delete"
        /\ requests[p].response.status = 200
        /\ chat_messages[requests[p].message_id].is_deleted
        /\ chat_messages[requests[p].message_id].deleted_by = requests[p].user
        /\ requests[q].pc = "done" /\ requests[q].op = "list"
        /\ requests[q].response.status = 200
        /\ requests[q].room = chat_messages[requests[p].message_id].room
        /\ Len(chat_messages) < MessageLimit
        /\ Len(requests[q].response.body[1].messages) > 0
        /\ \A k \in 1..Len(requests[q].response.body[1].messages) :
              requests[q].response.body[1].messages[k].id # requests[p].message_id



\* C22: delete_message changes a message only under its guards.  A step that
\* changes a stored message is the answer to a delete request for that message
\* by a requester with access to the course of the request who is a site admin
\* or the author, and the message is not deleted when the step changes it; a
\* delete request answered 404 or 403 changes no stored message.
C22_DeleteGuards ==
    [][/\ \A i \in 1..Len(chat_messages) :
             chat_messages'[i] # chat_messages[i] =>
                /\ ~chat_messages[i].is_deleted
                /\ \E p \in Procs :
                      /\ Answered(p)
                      /\ requests[p].op = "delete"
                      /\ requests[p].message_id = i
                      /\ CheckCourseAccess(requests[p].user, requests[p].course_id)
                      /\ CanDelete(requests[p].user, chat_messages[i])
       /\ \A p \in Procs :
             (/\ Answered(p)
              /\ requests'[p].op = "delete"
              /\ requests'[p].response.status \in {403, 404}) =>
                chat_messages' = chat_messages]_vars



\* the messages of a list_messages answer
ListedMessages(p) == requests[p].response.body[1].messages

\* C23: the step that answers a list request returns messages of the room of
\* the requested course and chat type only, none of them deleted, at most
\* MessageLimit of them, no message twice, in the order newest first, and every
\* listable message of the room that is left out was created no later than
\* every message returned.
C23_ListMessages ==
    [][\A p \in Procs :
          (Answered(p) /\ requests[p].op = "list" /\ requests'[p].response.status = 200) =>
             LET listed == ListedIds(requests'[p].response)
                 room == requests'[p].room
             IN  /\ chat_rooms[room] = [course_id |-> requests[p].course_id,
                                        chat_type |-> requests[p].chat_type]
                 /\ Len(listed) <= MessageLimit
                 /\ \A k \in 1..Len(listed) :
                       /\ listed[k] \in 1..Len(chat_messages)
                       /\ chat_messages[listed[k]].room = room
                       /\ ~chat_messages[listed[k]].is_deleted
                       /\ \A j \in 1..Len(listed) : listed[j] = listed[k] => j = k
                       /\ k > 1 => chat_messages[listed[k - 1]].created_at
                                      >= chat_messages[listed[k]].created_at
                 /\ \A i \in Listable(room) :
                       \/ \E k \in 1..Len(listed) : listed[k] = i
                       \/ /\ Len(listed) = MessageLimit
                          /\ \A k \in 1..Len(listed) :
                                chat_messages[i].created_at
                                   <= chat_messages[listed[k]].created_at]_vars

\* a list request was answered with MessageLimit messages of a room that holds
\* more, a deleted one among them
C23_Witness ==
    \E p \in Procs :
        /\ requests[p].pc = "done" /\ requests[p].op = "list"
        /\ requests[p].response.status = 200
        /\ Len(ListedMessages(p)) = MessageLimit
        /\ ListedMessages(p)[1].created_at > ListedMessages(p)[MessageLimit].created_at
        /\ \E i \in 1..Len(chat_messages) :
              /\ chat_messages[i].room = requests[p].room
              /\ chat_messages[i].is_deleted
        /\ \E i \in 1..Len(chat_messages) :
              /\ chat_messages[i].room = requests[p].room
              /\ ~chat_messages[i].is_deleted
              /\ \A k \in 1..MessageLimit : ListedMessages(p)[k].id # i



\* C24: one room per course and chat type.  In every state reached by
\* interleaved list and create requests no two ChatRoom rows have the same
\* course and chat type, and the room a request got from get_room, and the
\* room of every message it wrote, is the room of its course and chat type;
\* a step that adds a room adds one room, for the course and chat type of a
\* request whose requester passed the course access check.
C24_OneRoomPerPair ==
    [][/\ \A i, j \in 1..Len(chat_rooms') :
             chat_rooms'[i] = chat_rooms'[j] => i = j
       /\ \A p \in Procs :
             requests'[p].room # 0 =>
                /\ requests'[p].room \in 1..Len(chat_rooms')
                /\ chat_rooms'[requests'[p].room] =
                      [course_id |-> requests'[p].course_id,
                       chat_type |-> requests'[p].chat_type]
       /\ \A p \in Procs :
             (Answered(p) /\ requests'[p].response.status = 201) =>
                chat_messages'[requests'[p].response.body[1].id].room
                   \in RoomsOf(requests[p].course_id, requests[p].chat_type)
       /\ chat_rooms' # chat_rooms =>
             \E p \in Procs :
                /\ requests[p].op \in {"list", "create"}
                /\ CheckCourseAccess(requests[p].user, requests[p].course_id)
                /\ chat_rooms' =
                      Append(chat_rooms, [course_id |-> requests[p].course_id,
                                          chat_type |-> requests[p].chat_type])]_vars

\* two first requests for one course and chat type ran side by side: both
\* looked the room up before it existed, one has created it and is answered,
\* the other is about to insert it
C24_Witness ==
    \E p, q \in Procs :
        /\ requests[p].pc = "done" /\ requests[p].room # 0
        /\ requests[p].response.status \in {200, 201}
        /\ requests[q].pc = "create_room"
        /\ requests[q].course_id = requests[p].course_id
        /\ requests[q].chat_type = requests[p].chat_type
        /\ Len(chat_rooms) = 1



\* C25: standard competition ranking.  The ranks of the leaderboard list are
\* non-decreasing in list order, the rank of every entry is 1 plus the number
\* of active learners whose stored completion percent is strictly greater than
\* its own, and two entries have the same rank exactly when they have the same
\* score.
C25_CompetitionRanking ==
    LeaderboardServed =>
        LET lb == resp.body[1].leaderboard
        IN  /\ \A i \in 1..Len(lb) :
                  lb[i].rank =
                     1 + Cardinality(
                            {u \in ActiveUsers :
                                FracLess(CompletionPercent(completion_summary[lb[i].user_id]),
                                         CompletionPercent(completion_summary[u]))})
            /\ \A i, j \in 1..Len(lb) :
                  /\ i < j => lb[i].rank <= lb[j].rank
                  /\ lb[i].rank = lb[j].rank <=> lb[i].grade_percent = lb[j].grade_percent

\* two learners tie behind a third with a higher score: ranks 1, 2, 2
C25_Witness ==
    /\ LeaderboardServed
    /\ LET lb == resp.body[1].leaderboard
       IN  /\ Len(lb) = 3
           /\ <<lb[1].rank, lb[2].rank, lb[3].rank>> = <<1, 2, 2>>
           /\ lb[2].grade_percent = lb[3].grade_percent
           /\ FracLess(lb[2].grade_percent, lb[1].grade_percent)


\* C26: for every limit, a requesting user who is in the full ranking of
\* TopGradesView or TopProgressView is in exactly one of top_students and
\* current_user_entry, and top_count does not exceed the limit.
C26_ExactlyOnePlace ==
    TopServed =>
        LET body == resp.body[1]
            all == body.all_students_with_rank
            in_top == \E k \in 1..Len(body.top_students) :
                         body.top_students[k].user_id = resp.user
            in_entry == /\ body.current_user_entry # None
                        /\ body.current_user_entry[1].user_id = resp.user
        IN  /\ (\E i \in 1..Len(all) : all[i].user_id = resp.user) =>
                  in_top = ~in_entry
            /\ body.summary.top_count <= body.limit



\* C27: the counts of a badge rollup are consistent.  In every section, every
\* chapter and the summary 0 <= completed count <= total count;
\* completed_chapters is the number of chapters with is_completed true; every
\* unit of a chapter with is_completed true is completed; and
\* completion_percentage lies between 0.0 and 100.0 (in tenths: 0 and 1000).
C27_ConsistentCounts ==
    BadgeServed =>
        LET chapters == resp.body[1].chapters
            summary == resp.body[1].summary
        IN  /\ \A c \in 1..Len(chapters) :
                  /\ 0 <= chapters[c].completed_sections
                  /\ chapters[c].completed_sections <= chapters[c].total_sections
                  /\ \A s \in 1..Len(chapters[c].sections) :
                        LET section == chapters[c].sections[s]
                        IN  /\ 0 <= section.completed_units
                            /\ section.completed_units <= section.total_units
                            /\ chapters[c].is_completed =>
                                  \A u \in 1..Len(section.units) :
                                     section.units[u].is_completed
            /\ 0 <= summary.completed_chapters
            /\ summary.completed_chapters <= summary.total_chapters
            /\ 0 <= summary.completed_sections
            /\ summary.completed_sections <= summary.total_sections
            /\ 0 <= summary.completed_units
            /\ summary.completed_units <= summary.total_units
            /\ summary.completed_chapters =
                  Cardinality({c \in 1..Len(chapters) : chapters[c].is_completed})
            /\ 0 <= summary.completion_percentage
            /\ summary.completion_percentage <= 1000

\* a chapter that is not completed holds a completed and an uncompleted
\* section, and some but not all units of the course are completed
C27_Witness ==
    /\ BadgeServed
    /\ LET chapters == resp.body[1].chapters
           summary == resp.body[1].summary
       IN  /\ \E c \in 1..Len(chapters) :
                 /\ ~chapters[c].is_completed
                 /\ chapters[c].completed_sections > 0
                 /\ chapters[c].completed_sections < chapters[c].total_sections
           /\ summary.completed_units > 0
           /\ summary.completed_units < summary.total_units
           /\ summary.completion_percentage > 0
           /\ summary.completion_percentage < 1000



\* C28: delete_message changes messages of the addressed room only.  A step
\* that answers a delete request changes no message outside the room of the
\* course and chat type of the request.
C28_DeleteInRoom ==
    [][\A p \in Procs :
          (Answered(p) /\ requests[p].op = "delete") =>
             \A i \in 1..Len(chat_messages) :
                chat_messages'[i] # chat_messages[i] =>
                   chat_messages[i].room
                      \in RoomsOf(requests[p].course_id, requests[p].chat_type)]_vars

\* C29: two interleaved delete_message requests for one message.  When two
\* delete requests for the same message by requesters who may delete it (course
\* access, and site admin or author) are both answered, at most one answer is
\* 200, and then the other is 404 and deleted_by of the message is the
\* requester of the request answered 200.
C29_OneDeleteWins ==
    \A p, q \in Procs :
        (/\ p # q
         /\ requests[p].pc = "done" /\ requests[p].op = "delete"
         /\ requests[q].pc = "done" /\ requests[q].op = "delete"
         /\ requests[p].message_id = requests[q].message_id
         /\ requests[p].message_id \in 1..Len(chat_messages)
         /\ \A r \in {p, q} :
               /\ CheckCourseAccess(requests[r].user, requests[r].course_id)
               /\ CanDelete(requests[r].user, chat_messages[requests[r].message_id])
         /\ requests[p].response.status = 200) =>
            /\ requests[q].response.status = 404
            /\ chat_messages[requests[p].message_id].deleted_by = requests[p].user

====
